---- MODULE Spec2Model ----
(***************************************************************************)
(* ChatGalaxy backend: the WebSocket connection/session management layer.  *)
(*                                                                         *)
(* Two registries exist in the source and share no state:                  *)
(*   - WebSocketService   (app/services/websocket_service.py)              *)
(*   - ConnectionManager  (app/websocket/manager.py)                       *)
(* Both run on one asyncio event loop: a coroutine runs without            *)
(* interruption until it reaches an await that really suspends             *)
(* (websocket.accept/send_text/close, a ChatService call, asyncio.sleep).  *)
(* Every action below is one such uninterrupted run: from a call or a      *)
(* resumption up to the next suspension or the return.  Awaiting another   *)
(* coroutine of the registry (await self.disconnect(...),                  *)
(* await self.subscribe_session(...)) does not suspend by itself.          *)
(***************************************************************************)
EXTENDS Integers, Sequences, FiniteSets, TLC

(***************************************************************************)
(* Bounds of the model.                                                    *)
(***************************************************************************)
\* chat_message turns handled in one behaviour
MaxTurns == 2
\* last instant of the discrete clock (seconds)
MaxTime == 120
\* the instants at which a client may connect: phases 0, 1 and 29 of the
\* 30 seconds between two sweeps
ConnectTimes == {0, 1, 29}
\* the instants at which start_service may be called
StartTimes == {0, 1}
\* the seconds of every half minute at which the clock is looked at: the
\* phases at which clients connect and timers are due, and the second
\* after the first of them
Phases == {0, 1, 2, 29}
\* an administrator sends no further message to a connection whose socket
\* has accepted this many events
MaxInbox == 2
\* connections on which the client sends a ping / heartbeat
MaxPings == 1
\* chat_message turns in a behaviour of the broadcast specification
MaxCastTurns == 1
\* broadcast_to_session calls of ConnectionManager in a behaviour
MaxCasts == 1
\* clients that send a session_delete message in a behaviour
MaxDeletes == 1
\* disconnect calls for one id that are suspended in close() at the same time
MaxClosing == 2
\* how often the clock advances while a coroutine is ready to run or is
\* suspended in socket I/O or in a collaborator call
MaxLate == 1
\* send_system_message calls in a behaviour
MaxSystem == 1

\* connection identifiers (uuid4 in routes.py: never reused), numbered in
\* the order in which the connections are registered, which is the order
\* in which the dict self.connections iterates
ConnIds == {1, 2}
SessionIds == {"S1", "S2"}
UserIds == {"u1"}
NoUser == "guest"
NoConn == 0
NoSession == "-"
\* chat modes a client sends in the chat specification
SentModes == {"NORMAL", "STREAM"}
\* an answer of the Chat Collaborator in turn t: an object with the
\* attributes attrs, whose content is the collaborator's own
Answer(attrs, t) == [attrs |-> attrs, content |-> <<"reply", t>>]

(***************************************************************************)
(* Program constants.                                                      *)
(***************************************************************************)
\* WebSocketService.heartbeat_interval
heartbeat_interval == 30
\* WebSocketService.heartbeat_timeout
heartbeat_timeout == 60
\* ConnectionManager._heartbeat_loop: asyncio.sleep(30)
cm_heartbeat_interval == 30
\* ConnectionManager._heartbeat_loop: time_diff > 60
cm_heartbeat_timeout == 60

\* ChatMode: the enum's members and their values
ChatModes == {"NORMAL", "STREAM", "CONTEXT"}
ChatModeValue(m) ==
  CASE m = "NORMAL" -> "normal"
    [] m = "STREAM" -> "stream"
    [] m = "CONTEXT" -> "context"

\* models/chat.py 115-132: the attributes of a ChatResponse, what
\* ChatService.send_message is declared to return
ChatResponseFields ==
  {"session_id", "message_id", "user_message_id", "content", "role_id",
   "role_name", "tokens_used", "response_time", "created_at", "metadata"}
\* models/chat.py 92-103: the attributes of a StreamChatResponse, what
\* ChatService.stream_message is declared to yield
StreamChatResponseFields ==
  {"session_id", "message_id", "content", "is_complete", "tokens_used",
   "timestamp"}
\* what the Chat Collaborator answers in turn t
Reply(t) == Answer(ChatResponseFields, t)
\* what it yields in a turn t that is streamed
Chunk(t) == Answer(StreamChatResponseFields, t)
\* models/chat.py 231-246: the attributes of the ChatSessionResponse that
\* ChatService.create_session is declared to return
ChatSessionCreateResponseFields ==
  {"session_id", "title", "role_id", "role_name", "role_avatar", "message_count",
   "total_tokens", "is_active", "last_message_at", "created_at"}
\* models/chat_session.py 143-161: the attributes of the ChatSessionResponse
\* that ChatService.update_session is declared to return
ChatSessionResponseFields ==
  {"id", "title", "role_id", "user_id", "is_active", "status", "message_count",
   "total_tokens", "last_message_at", "created_at", "role_name", "role_avatar"}
\* what the Chat Collaborator answers to create_session, to update_session
Created == Answer(ChatSessionCreateResponseFields, 0)
Updated == Answer(ChatSessionResponseFields, 0)

\* the instants at which the clock is looked at
Instants == {t \in 0..MaxTime : t % heartbeat_interval \in Phases}

VARIABLES
  \* ---- which of the two registries the behaviour drives
  driven,
  \* ---- the clock (datetime.utcnow / datetime.now), in seconds
  now,
  \* ---- WebSocketService
  connections,          \* keys of self.connections
  is_active,            \* WebSocketConnection.is_active, per connection object
  user_id,              \* WebSocketConnection.user_id
  subscribed_sessions,  \* WebSocketConnection.subscribed_sessions
  last_ping,            \* WebSocketConnection.last_ping
  user_connections,     \* self.user_connections: user key -> set of ids
  session_connections,  \* self.session_connections: session id -> set of ids
  heartbeat_task,       \* self.heartbeat_task: "none", "running" or "done"
  \* ---- coroutines of WebSocketService in flight
  cpc,                  \* per id: the connect call and the receive loop after it
  dpc,                  \* per id: the disconnect calls from outside the sweep
                        \* that are suspended in close() (line 304)
  h,                    \* per id: the handle_message call of its receive loop
  hb,                   \* the _heartbeat_monitor task
  stop,                 \* the stop_service call
  \* ---- ConnectionManager
  active_connections,   \* keys of self.active_connections
  session_subscriptions,\* self.session_subscriptions: session id -> set of ids
  connection_metadata,  \* self.connection_metadata: id -> session_id, last_heartbeat
  heartbeat_tasks,      \* keys of self.heartbeat_tasks
  loop,                 \* per id: its _heartbeat_loop task
  cast,                 \* a broadcast_to_session call of ConnectionManager
  sys,                  \* a send_system_message call of WebSocketService
  late,                 \* how often the clock advanced past work that was due
  \* ---- history (what the clients observed, what the collaborator produced)
  inbox,                \* per id: the events its socket accepted, in order
  turns,                \* the chat turns started so far
  track,                \* per turn: who stayed deliverable; did its session's
                        \* set grow or shrink during a broadcast of the turn;
                        \* did a disconnect take a subscriber out during it
  life,                 \* per id: when it was registered, how often its liveness
                        \* was refreshed, how stale it was when evicted
  log                   \* the disconnect call that has just returned, if any

svcVars == <<connections, is_active, user_id, subscribed_sessions, last_ping,
             user_connections, session_connections, heartbeat_task>>
taskVars == <<cpc, dpc, h, hb>>
cmVars == <<active_connections, session_subscriptions, connection_metadata,
            heartbeat_tasks, loop>>
histVars == <<inbox, turns, track, life, log>>
callVars == <<stop, cast, sys, late>>
vars == <<driven, now, svcVars, taskVars, cmVars, callVars, histVars>>

(***************************************************************************)
(* Python dicts of sets: a key is either absent or mapped to a set.        *)
(***************************************************************************)
EmptyDict == [k \in {} |-> {}]

\* if key not in d: d[key] = set()          (websocket_service.py 375-377,
\* d[key].add(x)                              253-255; manager.py 60-62)
DictAdd(d, key, x) ==
  [k \in DOMAIN d \cup {key} |->
     IF k = key THEN (IF key \in DOMAIN d THEN d[key] ELSE {}) \cup {x}
     ELSE d[k]]

\* for key in keys: if key in d: d[key].discard(x); if not d[key]: del d[key]
DictDiscardAll_keeping(d, keys, x) ==
  [k \in DOMAIN d |-> IF k \in keys THEN d[k] \ {x} ELSE d[k]]
DictDiscardAll(d, keys, x) ==
  [k \in {k2 \in DOMAIN d : ~(k2 \in keys /\ d[k2] \ {x} = {})} |->
     IF k \in keys THEN d[k] \ {x} ELSE d[k]]

DictDel(d, key) == [k \in DOMAIN d \ {key} |-> d[k]]

Members(d) == UNION {d[k] : k \in DOMAIN d}

(***************************************************************************)
(* Events put on a socket.                                                 *)
(***************************************************************************)
Event(type, turn, sid, content, seq, complete) ==
  [type |-> type, turn |-> turn, sid |-> sid, content |-> content,
   seq |-> seq, is_complete |-> complete]
NoContent == <<"-", 0>>
NoEvent == Event("-", 0, NoSession, NoContent, 0, FALSE)
PlainEvent(type) == Event(type, 0, NoSession, NoContent, 0, FALSE)

(***************************************************************************)
(* Iterating a live Python set (for connection_id in connection_ids, where *)
(* connection_ids is the set object stored in session_connections, not a   *)
(* copy).  The iterator remembers the size of the set when the loop        *)
(* started; next() raises RuntimeError("Set changed size during            *)
(* iteration") when the size differs, and otherwise goes on over the       *)
(* table: an element added in place since the loop started may or may not  *)
(* be yielded.  A set of fewer than five elements is never rehashed, so no *)
(* element is yielded twice.  `live` says the object is still the one      *)
(* stored under it.sid; once the key is deleted the object keeps the       *)
(* content it had (`frozen`).                                              *)
(***************************************************************************)
\* over: the dict whose set is iterated ("session": session_connections,
\* "user": user_connections), sid: the key
NoIter == [over |-> "session", sid |-> NoSession, live |-> FALSE, frozen |-> {},
           size0 |-> 0, visited |-> {}, added |-> {}]

\* iter(d.get(key, set()))
IterStartIn(over, d, key) ==
  IF key \in DOMAIN d
  THEN [over |-> over, sid |-> key, live |-> TRUE, frozen |-> {},
        size0 |-> Cardinality(d[key]), visited |-> {}, added |-> {}]
  ELSE [NoIter EXCEPT !.over = over, !.sid = key]

\* iter(self.session_connections.get(session_id, set()))
IterStart(sid) == IterStartIn("session", session_connections, sid)

IterContent(it) ==
  IF ~it.live THEN it.frozen
  ELSE IF it.over = "user" THEN user_connections[it.sid]
  ELSE session_connections[it.sid]

\* what a change of the dict d to d2 does to an iterator in flight over a
\* set of d; inplace: a key that disappears was emptied by discard first
IterAfterIn(it, d, d2, inplace) ==
  IF ~it.live THEN it
  ELSE IF it.sid \notin DOMAIN d2
       THEN [it EXCEPT !.live = FALSE,
                       !.frozen = IF inplace THEN {} ELSE d[it.sid]]
       ELSE [it EXCEPT !.added = @ \cup (d2[it.sid] \ d[it.sid])]

\* the same for a change of session_connections to sc2
IterAfter(it, sc2, inplace) ==
  IterAfterIn(it, session_connections, sc2, inplace)

(***************************************************************************)
(* Coroutine frames.                                                       *)
(***************************************************************************)
IdleH == [pc |-> "idle", kind |-> "-", turn |-> 0, sid |-> NoSession,
          it |-> NoIter, target |-> NoConn, msg |-> NoEvent]
IdleHb == [pc |-> "none", wake |-> 0, timeout_connections |-> <<>>,
           swept |-> FALSE, since |-> 0]
IdleLoop == [pc |-> "none", wake |-> 0]
\* stop_service: the connections it has still to close (line 187)
IdleStop == [pc |-> "idle", list |-> <<>>, restarted |-> FALSE]
\* ConnectionManager.broadcast_to_session: the copy it iterates (line 145),
\* the ids of it still to come, the id it is sending to, how many
\* broadcasts were started, and the ids whose send failed
IdleCast == [pc |-> "idle", sid |-> NoSession, copy |-> {}, rest |-> {},
             target |-> NoConn, n |-> 0, failed |-> {}]
\* send_system_message: the target type of the call and its target id (key:
\* of a session or a user, conn: of a connection), the iterator
\* of its loop (it: over a set of an index; size0, pos, left: over
\* self.connections.values(), the size of the dict when the loop started,
\* the entries passed, the values still expected), the connection it is
\* sending to, how many calls were started, what the call caught, the ids
\* whose send failed; and base (see SysAfter)
IdleSys == [pc |-> "idle", kind |-> "-", key |-> NoSession, conn |-> NoConn,
            it |-> NoIter, size0 |-> 0, pos |-> 0, left |-> 0,
            target |-> NoConn, n |-> 0, exc |-> "none", failed |-> {},
            base |-> 0, alive |-> {}, touched |-> FALSE, deleted |-> {}]

HandlersAfter(sc2, inplace) ==
  [k \in ConnIds |-> [h[k] EXCEPT !.it = IterAfter(@, sc2, inplace)]]

(***************************************************************************)
(* Bookkeeping, the last conjunct of every action.  op names the call of   *)
(* which this step is a part ("disconnect": a disconnect call returns in   *)
(* this step), c its connection, exc the exception the call caught and     *)
(* logged in this step, ret what it returned ("evict": the age of the      *)
(* liveness stamp of each connection the heartbeat logic disconnects).     *)
(***************************************************************************)
Deliverable(sid) ==
  IF sid \in DOMAIN session_connections'
  THEN {k \in session_connections'[sid] : k \in connections' /\ is_active'[k]}
  ELSE {}

\* the steps in which WebSocketService.disconnect takes a connection out of
\* the indexes: called by the endpoint or an administrator ("disconnect":
\* the call returns in this step, "disconnect_call": it suspends in
\* close()), or by the heartbeat monitor at line 786 ("evict")
DisconnectOps == {"disconnect", "disconnect_call", "evict"}

TrackTurn(t, op) ==
  IF t > Len(turns)
  THEN [alive |-> Deliverable(turns'[t].sid), grown |-> FALSE, shrunk |-> FALSE,
        departed |-> FALSE]
  ELSE IF turns[t].state = "done" THEN track[t]
  ELSE LET sid == turns[t].sid
           old == IF sid \in DOMAIN session_connections
                  THEN session_connections[sid] ELSE {}
           new == IF sid \in DOMAIN session_connections'
                  THEN session_connections'[sid] ELSE {}
       IN [alive |-> track[t].alive \cap Deliverable(sid),
           grown |-> track[t].grown
                       \/ (turns[t].state = "broadcast" /\ new \ old # {}),
           shrunk |-> track[t].shrunk
                        \/ (turns[t].state = "broadcast" /\ old \ new # {}),
           departed |-> track[t].departed \/ (op \in DisconnectOps /\ old \ new # {})]

\* per id: born, the instant of its registration; pings, how many pings or
\* heartbeats refreshed its liveness since; evicted, the age of its
\* liveness stamp when the heartbeat logic called disconnect for it (-1:
\* never); deletes, how many session_delete messages it sent
NoLife == [born |-> -1, pings |-> 0, evicted |-> -1, deletes |-> 0]
LifeAfter(op, c, ret) ==
  CASE op = "register" -> [life EXCEPT ![c].born = now]
    [] op = "liveness" -> [life EXCEPT ![c].pings = @ + 1]
    [] op = "delete" -> [life EXCEPT ![c].deletes = @ + 1]
    [] op = "evict" -> [k \in ConnIds |->
                          IF k \in DOMAIN ret THEN [life[k] EXCEPT !.evicted = ret[k]]
                          ELSE life[k]]
    [] OTHER -> life

UnregisterOps == {"disconnect", "cm_disconnect"}
SubscribeOps == {"subscribe_session", "unsubscribe_session"}
\* the returns the log keeps: of a disconnect, of a connect, of a
\* subscribe_session or unsubscribe_session, of a handle_message call
\* that was given a message it does not handle, of start_service and of
\* stop_service, and the end of the setup of websocket_endpoint
ReturnOps == UnregisterOps \cup SubscribeOps
               \cup {"connect_return", "cm_connect_return",
                     "handle_rejected", "cm_handle_rejected",
                     "start_service", "stop_return", "endpoint_setup",
                     "sweep_raised"}
NoCall == [op |-> "-", c |-> NoConn, again |-> FALSE, exc |-> "none", ret |-> "none"]

\* the connections that refused an event of turn t: in this step the send
\* of a broadcast of the turn by c's handler is over and put nothing on the
\* target's socket
FailedAfter(t, op, c) ==
  IF t > Len(turns) THEN {}
  ELSE track[t].failed \cup
         (IF op = "broadcast_sent" /\ h[c].turn = t
               /\ inbox'[h[c].target] = inbox[h[c].target]
          THEN {h[c].target} ELSE {})

\* the timers that are set: the sleep of each heartbeat task
Timers ==
  {loop[c].wake : c \in {k \in ConnIds : loop[k].pc = "sleeping"}}
    \cup (IF hb.pc = "sleeping" THEN {hb.wake} ELSE {})

NextInstant ==
  CHOOSE t \in Instants : t > now /\ \A u \in Instants : u > now => t <= u

\* every coroutine is waiting for a timer that is not yet due or for its
\* client: none is ready to run, none is suspended in socket I/O or in a
\* collaborator call
Quiescent ==
  /\ \A c \in ConnIds :
       /\ cpc[c] \notin {"accepting", "greeting"}
       /\ dpc[c] = 0
       /\ h[c].pc = "idle"
       /\ loop[c].pc \in {"none", "done"} \/ (loop[c].pc = "sleeping" /\ now < loop[c].wake)
  /\ hb.pc = "none" \/ (hb.pc = "sleeping" /\ now < hb.wake)
  /\ stop.pc = "idle" /\ cast.pc = "idle" /\ sys.pc = "idle"

\* socket I/O, the collaborator and the event loop have taken no time so
\* far in this second: the clock may advance without being late
Prompt == Quiescent /\ \A w \in Timers : NextInstant <= w

\* late counts the steps of the clock that were taken while work was due
LateAfter(op) == IF op = "tick" /\ ~Prompt THEN late + 1 ELSE late

\* a change of session_connections or user_connections by the call op
\* removes a key in place (discard, then del of the empty set: disconnect,
\* unsubscribe_session) or with its set as it is (del in the session_delete
\* handler, clear() in stop_service)
InPlace(op) == op \notin {"handle_message", "stop_return"}

\* the connections that the call in sys is for and that are registered
\* in conns and active, given the user index uc and the session index sc
SysTargets(conns, active, uc, sc) ==
  LET among == CASE sys.kind = "session" ->
                      IF sys.key \in DOMAIN sc THEN sc[sys.key] ELSE {}
                 [] sys.kind = "user" ->
                      IF sys.key \in DOMAIN uc THEN uc[sys.key] ELSE {}
                 [] sys.kind = "connection" -> {sys.conn}
                 [] OTHER -> conns
  IN {k \in among \cap conns : active[k]}

\* what a step of another coroutine does to a send_system_message call in
\* flight: alive keeps the connections that have been among its targets,
\* registered and active, since the call began, touched whether the index
\* it goes over has changed meanwhile, deleted the sockets that have
\* accepted a session_delete of its session meanwhile; to the iterator of
\* its loop over a set of an index; and to base, the number of keys that
\* self.connections was given before it was last cleared (the entries of a
\* dict are kept in the order of insertion, from the last clear() on)
SysAfter(op) ==
  [sys EXCEPT
     !.alive = IF sys.pc = "idle" THEN @
               ELSE @ \cap SysTargets(connections', is_active', user_connections',
                                      session_connections'),
     !.deleted = IF sys.pc = "idle" \/ sys.kind # "session" THEN @
                 ELSE @ \cup {k \in ConnIds :
                                /\ Len(inbox'[k]) > Len(inbox[k])
                                /\ inbox'[k][Len(inbox'[k])].type = "session_delete"
                                /\ inbox'[k][Len(inbox'[k])].sid = sys.key},
     !.touched = IF sys.pc = "idle" THEN @
                 ELSE @ \/ (CASE sys.kind = "session" ->
                                   session_connections' # session_connections
                              [] sys.kind = "user" ->
                                   user_connections' # user_connections
                              [] OTHER -> connections' # connections),
     !.it = IF sys.pc = "idle" THEN @
            ELSE IF @.over = "user"
            THEN IterAfterIn(@, user_connections, user_connections', InPlace(op))
            ELSE IterAfterIn(@, session_connections, session_connections', InPlace(op)),
     !.base = IF op = "stop_return"
              THEN Cardinality({k \in ConnIds : life[k].born >= 0}) ELSE @]

\* log keeps the call only when one of ReturnOps returned in this step,
\* and whether this is a disconnect that returned right after a disconnect
\* of the same id returned
BookHist(op, c, exc, ret) ==
  /\ track' = [t \in 1..Len(turns') |->
                 TrackTurn(t, op) @@ [failed |-> FailedAfter(t, op, c)]]
  /\ life' = LifeAfter(op, c, ret)
  /\ log' = IF op \in ReturnOps
            THEN [op |-> op, c |-> c, again |-> (op \in UnregisterOps /\ log.op = op /\ log.c = c),
                  exc |-> exc, ret |-> ret]
            ELSE NoCall

\* the bookkeeping of a step of any coroutine but send_system_message
Book(op, c, exc, ret) ==
  /\ BookHist(op, c, exc, ret)
  /\ sys' = SysAfter(op)
  /\ late' = LateAfter(op)

\* the bookkeeping of a step of send_system_message, which sets sys itself
BookSys(op, c, exc, ret) ==
  /\ BookHist(op, c, exc, ret)
  /\ late' = late

(***************************************************************************)
(* WebSocketService.connect                                                *)
(***************************************************************************)
\* the call, up to await websocket.accept() (and, with a token, the
\* await of auth_service.get_current_user, which touches no shared state)
connect(c) ==
  /\ driven = "service"
  /\ cpc[c] = "unused"
  /\ \A k \in ConnIds : k < c => cpc[k] # "unused"
  /\ now \in ConnectTimes
  /\ cpc' = [cpc EXCEPT ![c] = "accepting"]
  /\ UNCHANGED <<driven, stop, cast, now, cmVars, svcVars, dpc, h, hb, inbox, turns>>
  /\ Book("connect", c, "none", "none")

\* accept raised: except Exception: websocket.close(...); return None
connect_failed(c) ==
  /\ driven = "service"
  /\ cpc[c] = "accepting"
  /\ cpc' = [cpc EXCEPT ![c] = "failed"]
  /\ UNCHANGED <<driven, stop, cast, now, cmVars, svcVars, dpc, h, hb, inbox, turns>>
  /\ Book("connect_return", c, "Exception", "None")

\* accept returned; u is the user the token resolves to (NoUser: a guest).
\* The connection object is built and registered, then the connect
\* message is put on the socket (send_message suspends in send_text).
connect_accepted(c, u) ==
  /\ driven = "service"
  /\ cpc[c] = "accepting"
  /\ \A k \in ConnIds : k < c => cpc[k] \notin {"unused", "accepting"}
  /\ connections' = connections \cup {c}
  /\ is_active' = [is_active EXCEPT ![c] = TRUE]
  /\ user_id' = [user_id EXCEPT ![c] = u]
  /\ subscribed_sessions' = [subscribed_sessions EXCEPT ![c] = {}]
  /\ last_ping' = [last_ping EXCEPT ![c] = now]
  /\ user_connections' = IF u # NoUser THEN DictAdd(user_connections, u, c)
                         ELSE user_connections
  /\ cpc' = [cpc EXCEPT ![c] = "greeting"]
  /\ UNCHANGED <<driven, stop, cast, now, cmVars, session_connections, heartbeat_task, dpc, h, hb,
                 inbox, turns>>
  /\ Book("register", c, "none", "none")

\* WebSocketConnection.send_message, lines 108-110: except Exception
\* catches whatever send_text raises; nothing reaches the caller
send_raises_as(ok) == ~ok
send_raises(ok) == FALSE

\* WebSocketConnection.send_message after its await: True, or the
\* exception handler (is_active = False, False)
send_result(c, ok, ev) ==
  /\ inbox' = IF ok THEN [inbox EXCEPT ![c] = Append(@, ev)] ELSE inbox
  /\ is_active' = IF ok THEN is_active ELSE [is_active EXCEPT ![c] = FALSE]

\* the connect message was sent or failed; connect returns the connection
connect_greeted(c, ok) ==
  /\ driven = "service"
  /\ cpc[c] = "greeting"
  /\ send_result(c, ok, PlainEvent("connect"))
  /\ cpc' = [cpc EXCEPT ![c] = "open"]
  /\ UNCHANGED <<driven, stop, cast, now, cmVars, connections, user_id, subscribed_sessions, last_ping,
                 user_connections, session_connections, heartbeat_task,
                 dpc, h, hb, turns>>
  /\ Book("connect_return", c, "none", "connection")

(***************************************************************************)
(* WebSocketService.disconnect                                             *)
(***************************************************************************)
\* connection = self.connections.get(connection_id); if not connection: return
disconnect_known_always(conns, c) == TRUE
disconnect_known(conns, c) == c \in conns

\* WebSocketConnection.close awaits websocket.close only if is_active
close_suspends(c) == is_active[c]

\* lines 288-293: out of the user index uc
disconnect_user_index(uc, c) ==
  IF user_id[c] # NoUser THEN DictDiscardAll(uc, {user_id[c]}, c) ELSE uc

\* lines 296-301: out of the sessions of the index sc that the connection
\* object says it subscribed to
disconnect_session_index(sc, c) == DictDiscardAll(sc, subscribed_sessions[c], c)

disconnect_indexes(c) ==
  /\ user_connections' = disconnect_user_index(user_connections, c)
  /\ session_connections' = disconnect_session_index(session_connections, c)
  /\ h' = HandlersAfter(disconnect_session_index(session_connections, c), TRUE)

\* lines 304-307 once close() is over: finally: is_active = False, then
\* del self.connections[connection_id] (KeyError, caught at 311, if another
\* disconnect of the same id removed it meanwhile)
disconnect_remove(c) ==
  /\ is_active' = [is_active EXCEPT ![c] = FALSE]
  /\ connections' = connections \ {c}

disconnect_exc(c) == IF c \in connections THEN "none" ELSE "KeyError"

\* a disconnect(c) issued by the endpoint or by an administrator, up to
\* its return or to its suspension in close().  Nothing keeps a call from
\* starting while an earlier call for the same id is suspended: it runs
\* lines 284-304 again and is suspended as well
disconnect(c) ==
  /\ driven = "service"
  /\ (disconnect_known(connections, c) /\ close_suspends(c)) => dpc[c] < MaxClosing
  /\ UNCHANGED <<driven, stop, cast, now, cmVars, user_id, subscribed_sessions, last_ping,
                 heartbeat_task, cpc, hb, inbox, turns>>
  /\ IF ~disconnect_known(connections, c)
     THEN /\ UNCHANGED <<connections, is_active, user_connections,
                         session_connections, dpc, h>>
          /\ Book("disconnect", c, "none", "None")
     ELSE /\ disconnect_indexes(c)
          /\ IF close_suspends(c)
             THEN /\ dpc' = [dpc EXCEPT ![c] = @ + 1]
                  /\ UNCHANGED <<connections, is_active>>
                  /\ Book("disconnect_call", c, "none", "none")
             ELSE /\ disconnect_remove(c)
                  /\ UNCHANGED dpc
                  /\ Book("disconnect", c, "none", "None")

\* websocket.close returned or raised (both swallowed by close()) for one
\* of the suspended calls: line 307 raises KeyError, caught at 311, for
\* the call that finds the id removed already
disconnect_resume(c) ==
  /\ driven = "service"
  /\ dpc[c] > 0
  /\ disconnect_remove(c)
  /\ dpc' = [dpc EXCEPT ![c] = @ - 1]
  /\ UNCHANGED <<driven, stop, cast, now, cmVars, user_id, subscribed_sessions, last_ping,
                 user_connections, session_connections, heartbeat_task,
                 cpc, h, hb, inbox, turns>>
  /\ Book("disconnect", c, disconnect_exc(c), "None")

(***************************************************************************)
(* WebSocketService.subscribe_session / unsubscribe_session: no await      *)
(* inside, each call is one step.                                          *)
(***************************************************************************)
\* connection = self.connections.get(connection_id); if not connection:
\* return False (lines 370-372, 405-407)
subscribe_known_always(c) == TRUE
subscribe_known(c) == c \in connections

\* lines 374-380
subscribe_effect(c, s) ==
  LET sc2 == DictAdd(session_connections, s, c)
  IN /\ session_connections' = sc2
     /\ subscribed_sessions' = [subscribed_sessions EXCEPT ![c] = @ \cup {s}]
     /\ h' = HandlersAfter(sc2, TRUE)

subscribe_session(c, s) ==
  /\ driven = "service"
  /\ UNCHANGED <<driven, stop, cast, now, cmVars, connections, is_active, user_id, last_ping,
                 user_connections, heartbeat_task, cpc, dpc, hb, inbox, turns>>
  /\ IF subscribe_known(c)
     THEN /\ subscribe_effect(c, s)
          /\ Book("subscribe_session", c, "none", "True")
     ELSE /\ UNCHANGED <<session_connections, subscribed_sessions, h>>
          /\ Book("subscribe_session", c, "none", "False")

\* lines 409-416
unsubscribe_effect(c, s) ==
  LET sc2 == DictDiscardAll(session_connections, {s}, c)
  IN /\ session_connections' = sc2
     /\ subscribed_sessions' = [subscribed_sessions EXCEPT ![c] = @ \ {s}]
     /\ h' = HandlersAfter(sc2, TRUE)

unsubscribe_session(c, s) ==
  /\ driven = "service"
  /\ UNCHANGED <<driven, stop, cast, now, cmVars, connections, is_active, user_id, last_ping,
                 user_connections, heartbeat_task, cpc, dpc, hb, inbox, turns>>
  /\ IF subscribe_known(c)
     THEN /\ unsubscribe_effect(c, s)
          /\ Book("unsubscribe_session", c, "none", "True")
     ELSE /\ UNCHANGED <<session_connections, subscribed_sessions, h>>
          /\ Book("unsubscribe_session", c, "none", "False")

(***************************************************************************)
(* WebSocketService.handle_message, chat_message branch                    *)
(* (_handle_chat_message).  The Chat Collaborator (ChatService) is outside *)
(* the core: a call to it suspends and then returns an answer or raises.   *)
(***************************************************************************)
\* line 328: if not connection or not connection.is_active: return
handle_admitted(c) == c \in connections /\ is_active[c]

\* line 512: chat_request.mode and chat_request.mode.value == "STREAM"
is_stream_mode(mode) == ChatModeValue(mode) = "STREAM"

\* a chat turn: outcome says what the collaborator did ("ok": it answered,
\* "failed": it raised, "invalid": it was not called), exc what the except
\* branch of the handler caught
Turn(c, sid, mode) ==
  [origin |-> c, sid |-> sid, mode |-> mode, stream |-> is_stream_mode(mode),
   state |-> "collab", outcome |-> "pending", content |-> NoContent, chunks |-> 0,
   complete |-> FALSE, aborted |-> FALSE, errsent |-> "none", deleted |-> {},
   exc |-> "none"]

\* lines 545-558: the attributes of chat_response from which the handler
\* builds response_message
ChatResponseReads ==
  {"session_id", "user_message_id", "ai_message_id", "ai_role_name", "content",
   "tokens_used", "response_time", "metadata", "timestamp"}
\* lines 521-530: the attributes of stream_response from which it builds
\* stream_message
StreamChunkReads ==
  {"session_id", "message_id", "content", "is_complete", "tokens_used",
   "timestamp"}

\* reading an attribute that the object does not have raises AttributeError
readable(attrs, reads) == reads \subseteq attrs

\* the sockets that have accepted a session_delete of turn t's session
\* that was built (and stamped) after the turn began
DeletedFor(t) ==
  {k \in ConnIds : \E i \in 1..Len(inbox[k]) :
     /\ inbox[k][i].type = "session_delete"
     /\ inbox[k][i].sid = turns[t].sid
     /\ t <= inbox[k][i].seq}

\* broadcast_to_session, one next() of its for loop (lines 442-448):
\* RuntimeError (caught at 450), the loop is over, or a connection that is
\* registered and active, to which the message is now being sent; the
\* others are passed over without suspending
iter_candidates(it) ==
  {x \in IterContent(it) \ it.visited : x \in connections /\ is_active[x]}

iter_next(it) ==
  IF Cardinality(IterContent(it)) # it.size0
  THEN {[kind |-> "RuntimeError", x |-> NoConn]}
  ELSE {[kind |-> "send", x |-> x] : x \in iter_candidates(it)}
       \cup (IF iter_candidates(it) \ it.added = {}
              THEN {[kind |-> "stop", x |-> NoConn]} ELSE {})

\* an except branch that only logs (line 566) and sends no chat_error
chat_fail_as(c, t, tn) ==
  /\ h' = [h EXCEPT ![c] = IdleH]
  /\ turns' = [turns EXCEPT ![t] = [tn EXCEPT !.state = "done",
                                              !.errsent = "skipped"]]
\* the except branch of _handle_chat_message (lines 565-571): chat_error to
\* the connection object the handler holds; send_message suspends only if
\* it is active.  tn: the turn as the try block left it
chat_fail(c, t, tn) ==
  IF is_active[c]
  THEN /\ h' = [h EXCEPT ![c] = [IdleH EXCEPT !.pc = "error_send", !.kind = "chat",
                                             !.turn = t, !.sid = h[c].sid]]
       /\ turns' = [turns EXCEPT ![t] = [tn EXCEPT !.state = "error"]]
  ELSE /\ h' = [h EXCEPT ![c] = IdleH]
       /\ turns' = [turns EXCEPT ![t] = [tn EXCEPT !.state = "done",
                                                   !.errsent = "skipped"]]

\* what follows a broadcast of the turn's event: the normal branch returns;
\* the stream branch asks the generator for its next item, which is the
\* re-raise at chat_service.py 521 when the item was the error chunk
chat_after_broadcast(c, t, aborted) ==
  LET tn == [turns[t] EXCEPT !.aborted = @ \/ aborted] IN
  IF ~tn.stream
  THEN /\ h' = [h EXCEPT ![c] = IdleH]
       /\ turns' = [turns EXCEPT ![t] = [tn EXCEPT !.state = "done"]]
  ELSE IF tn.outcome = "failed"
  THEN IF is_active[c]
       THEN /\ h' = [h EXCEPT ![c] = [IdleH EXCEPT !.pc = "error_send",
                          !.kind = "chat", !.turn = t, !.sid = h[c].sid]]
            /\ turns' = [turns EXCEPT ![t] = [tn EXCEPT !.state = "error"]]
       ELSE /\ h' = [h EXCEPT ![c] = IdleH]
            /\ turns' = [turns EXCEPT ![t] = [tn EXCEPT !.state = "done",
                                                        !.errsent = "skipped"]]
  ELSE /\ h' = [h EXCEPT ![c] = [IdleH EXCEPT !.pc = "collab", !.kind = "chat",
                                              !.turn = t, !.sid = h[c].sid]]
       /\ turns' = [turns EXCEPT ![t] = [tn EXCEPT !.state = "collab"]]

\* the for loop of broadcast_to_session from iterator it on, up to the
\* next send or to the end of the broadcast
broadcast_run(c, t, it, ev) ==
  \E o \in iter_next(it) :
    IF o.kind = "send"
    THEN /\ h' = [h EXCEPT ![c] = [IdleH EXCEPT !.pc = "broadcast_send",
                       !.kind = "chat", !.turn = t, !.sid = h[c].sid,
                       !.it = it, !.target = o.x, !.msg = ev]]
         /\ turns' = [turns EXCEPT ![t].state = "broadcast"]
    ELSE chat_after_broadcast(c, t, o.kind = "RuntimeError")

\* the forms of the "data" of a chat_message: a mapping that the
\* constructor of ChatRequest accepts, a mapping that it refuses, and a
\* value that is no mapping (a list, a string, a number)
ChatForms == {"valid", "invalid", "nonmapping"}

\* line 505, ChatRequest(**chat_data): the model's validation refuses the
\* fields (ValidationError), or ** of a value that is no mapping raises
\* TypeError; either is caught at line 565
chat_reject_exc(form) ==
  CASE form = "invalid" -> "ValidationError"
    [] form = "nonmapping" -> "TypeError"
    [] OTHER -> "none"

\* handle_message(c, {"type": "chat_message", "data": ...}) up to the call
\* of the collaborator; form: the form of the data
chat_message(c, form, sid, mode) ==
  /\ driven = "service"
  /\ cpc[c] = "open"
  /\ h[c].pc = "idle"
  /\ Len(turns) < MaxTurns
  /\ UNCHANGED <<driven, stop, cast, now, cmVars, connections, is_active, user_id, last_ping,
                 user_connections, heartbeat_task, cpc, dpc, hb, inbox>>
  /\ IF ~handle_admitted(c)
     THEN UNCHANGED <<session_connections, subscribed_sessions, h, turns>>
     ELSE IF form # "valid"
     THEN /\ UNCHANGED <<session_connections, subscribed_sessions>>
          /\ h' = [h EXCEPT ![c] = [IdleH EXCEPT !.pc = "error_send",
                        !.kind = "chat", !.turn = Len(turns) + 1, !.sid = sid]]
          /\ turns' = Append(turns, [Turn(c, sid, mode) EXCEPT
                                        !.state = "error", !.outcome = "invalid",
                                        !.exc = chat_reject_exc(form)])
     ELSE LET sc2 == DictAdd(session_connections, sid, c) IN
          /\ session_connections' = sc2
          /\ subscribed_sessions' = [subscribed_sessions EXCEPT ![c] = @ \cup {sid}]
          /\ h' = [HandlersAfter(sc2, TRUE) EXCEPT
                     ![c] = [IdleH EXCEPT !.pc = "collab", !.kind = "chat",
                                          !.turn = Len(turns) + 1, !.sid = sid]]
          /\ turns' = Append(turns, Turn(c, sid, mode))
  /\ Book("handle_message", c, "none", "none")

\* the collaborator answers with the object ans: send_message returns it,
\* or stream_message yields it as a chunk (last: with is_complete), or,
\* after its last chunk, ends.  The handler builds the message from the
\* attributes of ans (AttributeError, into the except branch, for one that
\* ans does not have) and broadcasts it.
chat_answered(c, ans, last) ==
  /\ driven = "service"
  /\ h[c].pc = "collab"
  /\ LET t == h[c].turn
         tn == [turns[t] EXCEPT !.deleted = @ \cup DeletedFor(t)]
         content == ans.content
     IN IF ~tn.stream /\ ~readable(ans.attrs, ChatResponseReads)
        THEN chat_fail(c, t, [tn EXCEPT !.outcome = "ok", !.content = content,
                                        !.exc = "AttributeError"])
        ELSE IF ~tn.stream
        THEN LET ev == Event("chat_response", t, tn.sid, content, 1, TRUE)
                 it == IterStart(tn.sid)
             IN \E o \in iter_next(it) :
                  IF o.kind = "send"
                  THEN /\ h' = [h EXCEPT ![c] = [h[c] EXCEPT !.pc = "broadcast_send",
                                     !.it = it, !.target = o.x, !.msg = ev]]
                       /\ turns' = [turns EXCEPT ![t] = [tn EXCEPT
                             !.state = "broadcast", !.outcome = "ok",
                             !.content = content, !.chunks = 1, !.complete = TRUE]]
                  ELSE /\ h' = [h EXCEPT ![c] = IdleH]
                       /\ turns' = [turns EXCEPT ![t] = [tn EXCEPT
                             !.state = "done", !.outcome = "ok",
                             !.content = content, !.chunks = 1, !.complete = TRUE,
                             !.aborted = (o.kind = "RuntimeError")]]
        ELSE IF tn.complete
        THEN /\ h' = [h EXCEPT ![c] = IdleH]
             /\ turns' = [turns EXCEPT ![t] = [tn EXCEPT !.state = "done",
                                                         !.outcome = "ok"]]
        ELSE IF ~readable(ans.attrs, StreamChunkReads)
        THEN chat_fail(c, t, [tn EXCEPT !.outcome = "ok",
                                        !.exc = "AttributeError"])
        ELSE LET n == tn.chunks + 1
                 ev == Event("chat_stream", t, tn.sid, content, n, last)
                 it == IterStart(tn.sid)
             IN \E o \in iter_next(it) :
                  IF o.kind = "send"
                  THEN /\ h' = [h EXCEPT ![c] = [h[c] EXCEPT !.pc = "broadcast_send",
                                     !.it = it, !.target = o.x, !.msg = ev]]
                       /\ turns' = [turns EXCEPT ![t] = [tn EXCEPT
                             !.state = "broadcast", !.chunks = n, !.complete = last]]
                  ELSE /\ h' = [h EXCEPT ![c] = [h[c] EXCEPT !.pc = "collab"]]
                       /\ turns' = [turns EXCEPT ![t] = [tn EXCEPT
                             !.chunks = n, !.complete = last,
                             !.aborted = @ \/ (o.kind = "RuntimeError")]]
  /\ UNCHANGED <<driven, stop, cast, now, cmVars, svcVars, cpc, dpc, hb, inbox>>
  /\ Book("handle_message", c, "none", "none")

\* chat_service.py 512-520: the except branch of stream_message builds its
\* error chunk with message_id=""; StreamChatResponse.message_id is a UUID
\* (models/chat.py 100) and UUID("") is rejected, so the constructor raises
\* and the error chunk is not yielded
error_chunk_message_id == ""
is_uuid(x) == x # ""

\* the collaborator raises: send_message raises into the except branch;
\* stream_message would first yield its error chunk (chat_service.py
\* 511-520), broadcast like any chunk, and raise when asked for more
chat_raised(c) ==
  /\ driven = "service"
  /\ h[c].pc = "collab"
  /\ LET t == h[c].turn
         tn == turns[t]
     IN IF ~tn.stream \/ ~is_uuid(error_chunk_message_id)
        THEN chat_fail(c, t, [tn EXCEPT !.outcome = "failed", !.exc = "Exception"])
        ELSE LET n == tn.chunks + 1
                 ev == Event("chat_stream", t, tn.sid, <<"error", t>>, n, TRUE)
                 it == IterStart(tn.sid)
             IN \E o \in iter_next(it) :
                  IF o.kind = "send"
                  THEN /\ h' = [h EXCEPT ![c] = [h[c] EXCEPT !.pc = "broadcast_send",
                                     !.it = it, !.target = o.x, !.msg = ev]]
                       /\ turns' = [turns EXCEPT ![t] = [tn EXCEPT
                             !.state = "broadcast", !.outcome = "failed",
                             !.chunks = n, !.complete = TRUE]]
                  ELSE IF is_active[c]
                  THEN /\ h' = [h EXCEPT ![c] = [h[c] EXCEPT !.pc = "error_send"]]
                       /\ turns' = [turns EXCEPT ![t] = [tn EXCEPT
                             !.state = "error", !.outcome = "failed",
                             !.chunks = n, !.complete = TRUE,
                             !.aborted = @ \/ (o.kind = "RuntimeError")]]
                  ELSE /\ h' = [h EXCEPT ![c] = IdleH]
                       /\ turns' = [turns EXCEPT ![t] = [tn EXCEPT
                             !.state = "done", !.outcome = "failed",
                             !.chunks = n, !.complete = TRUE, !.errsent = "skipped",
                             !.aborted = @ \/ (o.kind = "RuntimeError")]]
  /\ UNCHANGED <<driven, stop, cast, now, cmVars, svcVars, cpc, dpc, hb, inbox>>
  /\ Book("handle_message", c, "none", "none")

\* the send of the broadcast to h[c].target is over (line 448); the loop
\* goes on
broadcast_sent(c, ok) ==
  /\ driven = "service"
  /\ h[c].pc = "broadcast_send"
  /\ send_result(h[c].target, ok, h[c].msg)
  /\ LET it2 == [h[c].it EXCEPT !.visited = @ \cup {h[c].target}]
     IN IF send_raises(ok)
        THEN chat_after_broadcast(c, h[c].turn, TRUE)
        ELSE broadcast_run(c, h[c].turn, it2, h[c].msg)
  /\ UNCHANGED <<driven, stop, cast, now, cmVars, connections, user_id, subscribed_sessions, last_ping,
                 user_connections, session_connections, heartbeat_task,
                 cpc, dpc, hb>>
  /\ Book("broadcast_sent", c, "none", "none")

\* the send of chat_error is over (line 567); the handler returns
chat_error_sent(c, ok) ==
  /\ driven = "service"
  /\ h[c].pc = "error_send"
  /\ send_result(c, ok, Event("chat_error", h[c].turn, NoSession, NoContent, 0, FALSE))
  /\ h' = [h EXCEPT ![c] = IdleH]
  /\ turns' = [turns EXCEPT ![h[c].turn].state = "done",
                            ![h[c].turn].errsent = IF ok THEN "ok" ELSE "failed"]
  /\ UNCHANGED <<driven, stop, cast, now, cmVars, connections, user_id, subscribed_sessions, last_ping,
                 user_connections, session_connections, heartbeat_task,
                 cpc, dpc, hb>>
  /\ Book("handle_message", c, "none", "none")

(***************************************************************************)
(* WebSocketService.handle_message, session_delete branch                  *)
(* (_handle_session_delete).  chat_service.delete_session suspends and     *)
(* then returns True or False, or raises.                                  *)
(***************************************************************************)
\* the delete message (lines 711-717), built once delete_session has
\* returned True; seq stands for its timestamp (datetime.utcnow() at line
\* 716): the number of chat turns begun when the message is built
DeleteEvent(sid, n) == Event("session_delete", 0, sid, NoContent, n, FALSE)
DeletesOf(k) == SelectSeq(inbox[k], LAMBDA e : e.type = "session_delete")

\* a client sends session_delete once at most, and MaxDeletes clients do
DeleteAllowed(c) ==
  /\ life[c].deletes = 0
  /\ Cardinality({k \in ConnIds : life[k].deletes > 0}) < MaxDeletes

\* the error reply of the handler (lines 728-732 and 736-741) to the
\* connection object it holds; send_message suspends only if it is active
delete_fail(c) ==
  h' = [h EXCEPT ![c] = IF is_active[c]
                        THEN [IdleH EXCEPT !.pc = "delete_error_send",
                                           !.kind = "delete", !.sid = h[c].sid]
                        ELSE IdleH]

\* lines 725-727, after the broadcast: if str(session_id) in
\* self.session_connections: del self.session_connections[str(session_id)];
\* an iterator in flight keeps the set object
delete_finish(c, sid) ==
  LET sc2 == IF sid \in DOMAIN session_connections
             THEN DictDel(session_connections, sid) ELSE session_connections
  IN /\ session_connections' = sc2
     /\ h' = [HandlersAfter(sc2, FALSE) EXCEPT ![c] = IdleH]

\* the for loop of broadcast_to_session for the delete message, from
\* iterator it on; a RuntimeError of the iteration is caught inside
\* broadcast_to_session (line 450) and the handler goes on to line 725
delete_run(c, it, ev) ==
  \E o \in iter_next(it) :
    IF o.kind = "send"
    THEN /\ h' = [h EXCEPT ![c] = [h[c] EXCEPT !.pc = "delete_send", !.it = it,
                                               !.target = o.x, !.msg = ev]]
         /\ UNCHANGED session_connections
    ELSE delete_finish(c, h[c].sid)

\* handle_message(c, {"type": "session_delete", "data": ...}) up to the
\* call of the collaborator; valid: UUID(data.get("session_id")) accepts
\* the data
session_delete(c, valid, sid) ==
  /\ driven = "service"
  /\ cpc[c] = "open"
  /\ h[c].pc = "idle"
  /\ DeleteAllowed(c)
  /\ IF ~handle_admitted(c) THEN UNCHANGED h
     ELSE IF ~valid THEN delete_fail(c)
     ELSE h' = [h EXCEPT ![c] = [IdleH EXCEPT !.pc = "delete_collab",
                    !.kind = "delete", !.sid = sid]]
  /\ UNCHANGED <<driven, stop, cast, now, cmVars, svcVars, cpc, dpc, hb, inbox, turns>>
  /\ Book("delete", c, "none", "none")

\* delete_session returned: True, and the delete message is built and
\* broadcast, or False
delete_answered(c, success) ==
  /\ driven = "service"
  /\ h[c].pc = "delete_collab"
  /\ IF success
     THEN delete_run(c, IterStart(h[c].sid), DeleteEvent(h[c].sid, Len(turns)))
     ELSE delete_fail(c) /\ UNCHANGED session_connections
  /\ UNCHANGED <<driven, stop, cast, now, cmVars, connections, is_active, user_id,
                 subscribed_sessions, last_ping, user_connections, heartbeat_task,
                 cpc, dpc, hb, inbox, turns>>
  /\ Book("handle_message", c, "none", "none")

\* delete_session raised (line 734)
delete_raised(c) ==
  /\ driven = "service"
  /\ h[c].pc = "delete_collab"
  /\ delete_fail(c)
  /\ UNCHANGED <<driven, stop, cast, now, cmVars, svcVars, cpc, dpc, hb, inbox, turns>>
  /\ Book("handle_message", c, "none", "none")

\* the send of the delete message to h[c].target is over; the loop goes on
delete_sent(c, ok) ==
  /\ driven = "service"
  /\ h[c].pc = "delete_send"
  /\ send_result(h[c].target, ok, h[c].msg)
  /\ IF send_raises(ok) THEN delete_finish(c, h[c].sid)
     ELSE delete_run(c, [h[c].it EXCEPT !.visited = @ \cup {h[c].target}], h[c].msg)
  /\ UNCHANGED <<driven, stop, cast, now, cmVars, connections, user_id,
                 subscribed_sessions, last_ping, user_connections, heartbeat_task,
                 cpc, dpc, hb, turns>>
  /\ Book("handle_message", c, "none", "none")

\* the send of the error reply is over; the handler returns
delete_error_sent(c, ok) ==
  /\ driven = "service"
  /\ h[c].pc = "delete_error_send"
  /\ send_result(c, ok, PlainEvent("error"))
  /\ h' = [h EXCEPT ![c] = IdleH]
  /\ UNCHANGED <<driven, stop, cast, now, cmVars, connections, user_id,
                 subscribed_sessions, last_ping, user_connections,
                 session_connections, heartbeat_task, cpc, dpc, hb, turns>>
  /\ Book("handle_message", c, "none", "none")

(***************************************************************************)
(* WebSocketService.handle_message, session_create and session_update      *)
(* branches (_handle_session_create, _handle_session_update).              *)
(* chat_service.create_session and update_session suspend and then return *)
(* an object, or raise.                                                    *)
(***************************************************************************)
\* lines 599-614: the attributes of session_response that the handler
\* reads, the first for the subscription, all for the reply
SessionCreateReads ==
  {"session_id", "session_token", "title", "ai_role", "created_at"}
\* lines 659-663: the attributes of updated_session
SessionUpdateReads == {"id", "title", "is_active", "session_status", "updated_at"}

\* the except branches (lines 619-625, 679-685) and the else branch of
\* line 672: an error event to the connection object the handler holds;
\* send_message suspends only if it is active
session_fail(c, kind) ==
  h' = [h EXCEPT ![c] = IF is_active[c]
                        THEN [IdleH EXCEPT !.pc = "session_error_send",
                                           !.kind = kind, !.sid = h[c].sid]
                        ELSE IdleH]

\* handle_message(c, {"type": "session_create", "data": ...}) up to the
\* call of the collaborator; valid: the constructor of ChatSessionCreate accepts the
\* data
session_create(c, valid) ==
  /\ driven = "service"
  /\ cpc[c] = "open"
  /\ h[c].pc = "idle"
  /\ Len(inbox[c]) < MaxInbox
  /\ IF ~handle_admitted(c) THEN UNCHANGED h
     ELSE IF ~valid THEN session_fail(c, "create")
     ELSE h' = [h EXCEPT ![c] = [IdleH EXCEPT !.pc = "create_collab",
                                              !.kind = "create"]]
  /\ UNCHANGED <<driven, stop, cast, now, cmVars, svcVars, cpc, dpc, hb, inbox, turns>>
  /\ Book("handle_message", c, "none", "none")

\* create_session returned the object ans of the session sid: the handler
\* subscribes the connection (subscribe_session, line 597; no await
\* inside), then builds the reply from the attributes of ans
\* (AttributeError, into the except branch, for one that ans does not have)
create_answered(c, sid, ans) ==
  /\ driven = "service"
  /\ h[c].pc = "create_collab"
  /\ LET hh == [h EXCEPT ![c] = [@ EXCEPT !.sid = sid]]
         sc2 == IF readable(ans.attrs, {"session_id"}) /\ subscribe_known(c)
                THEN DictAdd(session_connections, sid, c) ELSE session_connections
         after == [k \in ConnIds |-> [hh[k] EXCEPT !.it = IterAfter(@, sc2, TRUE)]]
     IN /\ session_connections' = sc2
        /\ subscribed_sessions' =
             IF readable(ans.attrs, {"session_id"}) /\ subscribe_known(c)
             THEN [subscribed_sessions EXCEPT ![c] = @ \cup {sid}]
             ELSE subscribed_sessions
        /\ h' = [after EXCEPT ![c] =
                   IF ~is_active[c] THEN IdleH
                   ELSE IF readable(ans.attrs, SessionCreateReads)
                   THEN [IdleH EXCEPT !.pc = "create_send", !.kind = "create",
                                      !.sid = sid]
                   ELSE [IdleH EXCEPT !.pc = "session_error_send",
                                      !.kind = "create", !.sid = sid]]
  /\ UNCHANGED <<driven, stop, cast, now, cmVars, connections, is_active, user_id,
                 last_ping, user_connections, heartbeat_task, cpc, dpc, hb,
                 inbox, turns>>
  /\ Book("handle_message", c, "none", "none")

\* create_session raised (line 619)
create_raised(c) ==
  /\ driven = "service"
  /\ h[c].pc = "create_collab"
  /\ session_fail(c, "create")
  /\ UNCHANGED <<driven, stop, cast, now, cmVars, svcVars, cpc, dpc, hb, inbox, turns>>
  /\ Book("handle_message", c, "none", "none")

\* the send of the session_create reply is over (line 603); a send that
\* fails raises nothing and the handler returns
create_sent(c, ok) ==
  /\ driven = "service"
  /\ h[c].pc = "create_send"
  /\ send_result(c, ok, Event("session_create", 0, h[c].sid, NoContent, 0, FALSE))
  /\ h' = [h EXCEPT ![c] = IdleH]
  /\ UNCHANGED <<driven, stop, cast, now, cmVars, connections, user_id,
                 subscribed_sessions, last_ping, user_connections,
                 session_connections, heartbeat_task, cpc, dpc, hb, turns>>
  /\ Book("handle_message", c, "none", "none")

\* handle_message(c, {"type": "session_update", "data": ...}) up to the
\* call of the collaborator; valid: UUID(data.get("session_id")) and
\* the constructor of ChatSessionUpdate accept the data
session_update(c, valid, sid) ==
  /\ driven = "service"
  /\ cpc[c] = "open"
  /\ h[c].pc = "idle"
  /\ Len(inbox[c]) < MaxInbox
  /\ IF ~handle_admitted(c) THEN UNCHANGED h
     ELSE IF ~valid THEN session_fail(c, "update")
     ELSE h' = [h EXCEPT ![c] = [IdleH EXCEPT !.pc = "update_collab",
                                              !.kind = "update", !.sid = sid]]
  /\ UNCHANGED <<driven, stop, cast, now, cmVars, svcVars, cpc, dpc, hb, inbox, turns>>
  /\ Book("handle_message", c, "none", "none")

\* the for loop of broadcast_to_session for the update message, from
\* iterator it on, up to the next send or to the end of the handler
update_run(c, it, ev) ==
  \E o \in iter_next(it) :
    h' = [h EXCEPT ![c] = IF o.kind = "send"
                          THEN [h[c] EXCEPT !.pc = "update_send", !.it = it,
                                            !.target = o.x, !.msg = ev]
                          ELSE IdleH]

\* update_session returned: None (found: FALSE), and the else branch
\* replies with an error, or the object ans, from whose attributes the
\* update message is built (AttributeError, into the except branch, for
\* one that ans does not have) and broadcast to the session
update_answered(c, found, ans) ==
  /\ driven = "service"
  /\ h[c].pc = "update_collab"
  /\ IF ~found \/ ~readable(ans.attrs, SessionUpdateReads)
     THEN session_fail(c, "update")
     ELSE update_run(c, IterStart(h[c].sid),
                     Event("session_update", 0, h[c].sid, NoContent, 0, FALSE))
  /\ UNCHANGED <<driven, stop, cast, now, cmVars, svcVars, cpc, dpc, hb, inbox, turns>>
  /\ Book("handle_message", c, "none", "none")

\* update_session raised (line 679)
update_raised(c) ==
  /\ driven = "service"
  /\ h[c].pc = "update_collab"
  /\ session_fail(c, "update")
  /\ UNCHANGED <<driven, stop, cast, now, cmVars, svcVars, cpc, dpc, hb, inbox, turns>>
  /\ Book("handle_message", c, "none", "none")

\* the send of the update message to h[c].target is over; the loop goes on
update_sent(c, ok) ==
  /\ driven = "service"
  /\ h[c].pc = "update_send"
  /\ send_result(h[c].target, ok, h[c].msg)
  /\ update_run(c, [h[c].it EXCEPT !.visited = @ \cup {h[c].target}], h[c].msg)
  /\ UNCHANGED <<driven, stop, cast, now, cmVars, connections, user_id,
                 subscribed_sessions, last_ping, user_connections,
                 session_connections, heartbeat_task, cpc, dpc, hb, turns>>
  /\ Book("handle_message", c, "none", "none")

\* the send of the error event is over; the handler returns
session_error_sent(c, ok) ==
  /\ driven = "service"
  /\ h[c].pc = "session_error_send"
  /\ send_result(c, ok, PlainEvent("error"))
  /\ h' = [h EXCEPT ![c] = IdleH]
  /\ UNCHANGED <<driven, stop, cast, now, cmVars, connections, user_id,
                 subscribed_sessions, last_ping, user_connections,
                 session_connections, heartbeat_task, cpc, dpc, hb, turns>>
  /\ Book("handle_message", c, "none", "none")

(***************************************************************************)
(* WebSocketService.handle_message given a message it does not handle.     *)
(***************************************************************************)
\* form "unknown": a type that is none of the five (the else branch, lines
\* 342-347); form "malformed": a message that is no JSON object, so that
\* message.get raises and the except branch calls _send_error (lines
\* 349-351, 755-761).  Either way one error event goes to the connection
\* just looked up; send_message suspends in send_text.
RejectedForms == {"unknown", "malformed"}
reject_exc(form) == IF form = "malformed" THEN "AttributeError" ELSE "none"

other_message(c, form) ==
  /\ driven = "service"
  /\ cpc[c] = "open"
  /\ h[c].pc = "idle"
  /\ Len(inbox[c]) < MaxInbox
  /\ IF ~handle_admitted(c) THEN UNCHANGED h
     ELSE h' = [h EXCEPT ![c] = [IdleH EXCEPT !.pc = "reply_send", !.kind = form]]
  /\ UNCHANGED <<driven, stop, cast, now, cmVars, svcVars, cpc, dpc, hb, inbox, turns>>
  /\ Book("handle_message", c, "none", "none")

\* the send of the error reply is over; handle_message returns
error_reply_sent(c, ok) ==
  /\ driven = "service"
  /\ h[c].pc = "reply_send"
  /\ send_result(c, ok, PlainEvent("error"))
  /\ h' = [h EXCEPT ![c] = IdleH]
  /\ UNCHANGED <<driven, stop, cast, now, cmVars, connections, user_id,
                 subscribed_sessions, last_ping, user_connections,
                 session_connections, heartbeat_task, cpc, dpc, hb, turns>>
  /\ Book("handle_rejected", c, reject_exc(h[c].kind), "None")

(***************************************************************************)
(* WebSocketService.send_system_message (lines 826-870), with              *)
(* broadcast_to_user (lines 453-475) and broadcast_to_session (425-451).   *)
(***************************************************************************)
\* system_message (lines 841-845) of the n-th call
SystemEvent(n) == Event("system_message", 0, NoSession, <<"system", n>>, n, FALSE)

SystemKinds == {"all", "user", "session", "connection"}

\* the set under key in the index d (d.get(key, set()))
Subscribed(d, key) == IF key \in DOMAIN d THEN d[key] ELSE {}

\* the call returns, having caught and logged exc: what is kept of its
\* frame is what the call was for and what became of it
sys_return(fr, exc) ==
  [fr EXCEPT !.pc = "idle", !.target = NoConn, !.exc = exc, !.it = NoIter,
             !.size0 = 0, !.pos = 0, !.left = 0]

\* the loop of broadcast_to_session or broadcast_to_user from the frame fr
\* on, up to the next send or to the end of the call; a RuntimeError of the
\* iteration is caught and logged by the broadcast (lines 450, 474)
sys_set_run(fr) ==
  \E o \in iter_next(fr.it) :
    sys' = IF o.kind = "send"
           THEN [fr EXCEPT !.pc = "sending", !.target = o.x]
           ELSE sys_return(fr, IF o.kind = "RuntimeError" THEN "RuntimeError"
                               ELSE fr.exc)

\* next() of the iterator of self.connections.values(): RuntimeError when
\* the size of the dict is not the one it had when the loop started, the
\* end when no entry is left after the ones passed, RuntimeError when an
\* entry is left and every value expected was yielded, else the value of
\* the next entry.  Connection x is in entry x - 1 - base.
dict_next(fr) ==
  LET cand == {x \in connections : x - 1 - fr.base >= fr.pos} IN
  IF Cardinality(connections) # fr.size0 THEN [kind |-> "RuntimeError", x |-> NoConn]
  ELSE IF cand = {} THEN [kind |-> "stop", x |-> NoConn]
  ELSE IF fr.left = 0 THEN [kind |-> "RuntimeError", x |-> NoConn]
  ELSE [kind |-> "yield", x |-> CHOOSE x \in cand : \A y \in cand : x <= y]

\* lines 847-851, for connection in self.connections.values(): if
\* connection.is_active: await connection.send_message(...), from the
\* frame fr on, up to the next send or to the end of the call; the
\* RuntimeError is caught at line 869
RECURSIVE sys_all_run(_)
sys_all_run(fr) ==
  LET o == dict_next(fr) IN
  IF o.kind = "yield"
  THEN LET fr2 == [fr EXCEPT !.pos = o.x - fr.base, !.left = @ - 1]
       IN IF is_active[o.x] THEN [fr2 EXCEPT !.pc = "sending", !.target = o.x]
          ELSE sys_all_run(fr2)
  ELSE sys_return(fr, IF o.kind = "RuntimeError" THEN "RuntimeError" ELSE fr.exc)

\* send_system_message(message, kind, target id) is called
send_system_message(kind, key, conn) ==
  /\ driven = "service"
  /\ sys.pc = "idle"
  /\ sys.n < MaxSystem
  /\ LET among == CASE kind = "session" -> Subscribed(session_connections, key)
                     [] kind = "user" -> Subscribed(user_connections, key)
                     [] kind = "connection" -> {conn}
                     [] OTHER -> connections
         fr0 == [IdleSys EXCEPT !.kind = kind, !.key = key, !.conn = conn,
                                !.n = sys.n + 1, !.base = sys.base,
                                !.alive = {k \in among \cap connections : is_active[k]}]
     IN CASE kind = "all" ->
               sys' = sys_all_run([fr0 EXCEPT !.size0 = Cardinality(connections),
                                              !.left = Cardinality(connections)])
          [] kind = "session" -> sys_set_run([fr0 EXCEPT !.it = IterStart(key)])
          [] kind = "user" ->
               sys_set_run([fr0 EXCEPT
                              !.it = IterStartIn("user", user_connections, key)])
          [] kind = "connection" ->
               sys' = IF conn \in connections /\ is_active[conn]
                      THEN [fr0 EXCEPT !.pc = "sending", !.target = conn]
                      ELSE sys_return(fr0, "none")
  /\ UNCHANGED <<driven, now, stop, cast, svcVars, taskVars, cmVars, inbox, turns>>
  /\ BookSys("system", NoConn, "none", "none")

\* the send of the system message to sys.target is over; the loop goes on
system_sent(ok) ==
  /\ driven = "service"
  /\ sys.pc = "sending"
  /\ send_result(sys.target, ok, SystemEvent(sys.n))
  /\ LET fr == [sys EXCEPT !.failed = IF ok THEN @ ELSE @ \cup {sys.target},
                           !.alive = IF ok THEN @ ELSE @ \ {sys.target},
                           !.it.visited = @ \cup {sys.target}]
     IN CASE send_raises(ok) -> sys' = sys_return(fr, "Exception")
          [] sys.kind = "all" -> sys' = sys_all_run(fr)
          [] sys.kind \in {"session", "user"} -> sys_set_run(fr)
          [] sys.kind = "connection" -> sys' = sys_return(fr, "none")
  /\ UNCHANGED <<driven, now, stop, cast, cmVars, connections, user_id,
                 subscribed_sessions, last_ping, user_connections,
                 session_connections, heartbeat_task, taskVars, turns>>
  /\ BookSys("system", NoConn, "none", "none")

(***************************************************************************)
(* ConnectionManager (app/websocket/manager.py).                           *)
(***************************************************************************)
\* handle_message given a message it does not handle (heartbeat: see
\* cm_heartbeat, ping: see cm_ping).  form "unknown": a type other than
\* heartbeat and ping (lines 182-183); form "invalid_json": json.loads
\* raises JSONDecodeError (lines 185-186); form "too_deep": the text is
\* nested deeper than the interpreter's recursion limit and json.loads
\* raises RecursionError; form "huge_int": the text holds an integer of
\* more digits than int() converts and json.loads raises ValueError; form
\* "nonobject": the text is JSON but no object (a list, a number, a
\* string, null), so data.get raises AttributeError.  The last three are
\* caught at lines 187-188.  Each is logged and nothing else is done.
CmRejectedForms ==
  {"unknown", "invalid_json", "too_deep", "huge_int", "nonobject"}
cm_reject_exc(form) ==
  CASE form = "invalid_json" -> "JSONDecodeError"
    [] form = "too_deep" -> "RecursionError"
    [] form = "huge_int" -> "ValueError"
    [] form = "nonobject" -> "AttributeError"
    [] OTHER -> "none"

cm_handle_message(c, form) ==
  /\ driven = "manager"
  /\ cpc[c] = "open"
  /\ h[c].pc = "idle"
  /\ UNCHANGED <<driven, stop, cast, now, cmVars, svcVars, taskVars, inbox, turns>>
  /\ Book("cm_handle_rejected", c, cm_reject_exc(form), "None")

\* connect up to await websocket.accept()
cm_connect(c) ==
  /\ driven = "manager"
  /\ cpc[c] = "unused"
  /\ \A k \in ConnIds : k < c => cpc[k] # "unused"
  /\ now \in ConnectTimes
  /\ cpc' = [cpc EXCEPT ![c] = "accepting"]
  /\ UNCHANGED <<driven, stop, cast, now, cmVars, svcVars, dpc, h, hb, inbox, turns>>
  /\ Book("cm_connect", c, "none", "none")

\* accept raised: except Exception: return False
cm_connect_failed(c) ==
  /\ driven = "manager"
  /\ cpc[c] = "accepting"
  /\ cpc' = [cpc EXCEPT ![c] = "failed"]
  /\ UNCHANGED <<driven, stop, cast, now, cmVars, svcVars, dpc, h, hb, inbox, turns>>
  /\ Book("cm_connect_return", c, "Exception", "False")

\* accept returned: lines 50-67 store the socket and the metadata,
\* subscribe the connection to its session and create its heartbeat task
\* (line 65), which has not run yet and has set no timer; then
\* send_personal_message suspends in send_text
cm_connect_accepted(c, s) ==
  /\ driven = "manager"
  /\ cpc[c] = "accepting"
  /\ \A k \in ConnIds : k < c => cpc[k] \notin {"unused", "accepting"}
  /\ active_connections' = active_connections \cup {c}
  /\ connection_metadata' =
       [k \in DOMAIN connection_metadata \cup {c} |->
          IF k = c THEN [session_id |-> s, last_heartbeat |-> now]
          ELSE connection_metadata[k]]
  /\ session_subscriptions' = DictAdd(session_subscriptions, s, c)
  /\ heartbeat_tasks' = heartbeat_tasks \cup {c}
  /\ loop' = [loop EXCEPT ![c] = [IdleLoop EXCEPT !.pc = "created"]]
  /\ cpc' = [cpc EXCEPT ![c] = "greeting"]
  /\ UNCHANGED <<driven, stop, cast, now, svcVars, dpc, h, hb, inbox, turns>>
  /\ Book("register", c, "none", "none")

\* lines 94-96: del self.heartbeat_tasks[connection_id]
cm_tasks_after_kept(tasks, c) == tasks
cm_tasks_after(tasks, c) == tasks \ {c}

\* the body of disconnect (lines 92-111); nothing in it suspends.  The
\* heartbeat task it cancels (line 95) ends when it runs next, with the
\* CancelledError at the await it is suspended in (cm_loop_cancelled);
\* when the caller is that task itself (own), it goes on running up to
\* its break or its next loop test and is over in this step.
cm_disconnect_by(c, own) ==
  /\ heartbeat_tasks' = cm_tasks_after(heartbeat_tasks, c)
  /\ loop' = IF c \in heartbeat_tasks
             THEN [loop EXCEPT ![c].pc = IF own THEN "done" ELSE "cancelled"]
             ELSE IF own THEN [loop EXCEPT ![c].pc = "done"]
             ELSE loop
  /\ session_subscriptions' =
       IF c \in DOMAIN connection_metadata
       THEN DictDiscardAll(session_subscriptions,
                           {connection_metadata[c].session_id}, c)
       ELSE session_subscriptions
  /\ active_connections' = active_connections \ {c}
  /\ connection_metadata' = DictDel(connection_metadata, c)

\* disconnect(c) called by another coroutine than c's heartbeat task
cm_disconnect_effect(c) == cm_disconnect_by(c, FALSE)

\* send_personal_message after its await: nothing more, or the exception
\* handler, which disconnects
cm_send_result(c, ok, ev) ==
  /\ inbox' = IF ok THEN [inbox EXCEPT ![c] = Append(@, ev)] ELSE inbox
  /\ IF ok THEN UNCHANGED cmVars ELSE cm_disconnect_effect(c)

\* the connection_established message was sent or failed; connect returns
cm_connect_greeted(c, ok) ==
  /\ driven = "manager"
  /\ cpc[c] = "greeting"
  /\ cm_send_result(c, ok, PlainEvent("connection_established"))
  /\ cpc' = [cpc EXCEPT ![c] = "open"]
  /\ UNCHANGED <<driven, stop, cast, now, svcVars, dpc, h, hb, turns>>
  /\ Book("cm_connect_return", c, "none", "True")

\* a disconnect(c) issued by the endpoint or by an administrator
cm_disconnect(c) ==
  /\ driven = "manager"
  /\ cm_disconnect_effect(c)
  /\ UNCHANGED <<driven, stop, cast, now, svcVars, taskVars, inbox, turns>>
  /\ Book("cm_disconnect", c, "none", "None")

\* send_personal_message(c, message) called from outside: returns at once
\* when c is not in active_connections, else suspends in send_text
cm_send_personal_message(c) ==
  /\ driven = "manager"
  /\ h[c].pc = "idle"
  /\ Len(inbox[c]) < MaxInbox
  /\ h' = IF c \in active_connections
          THEN [h EXCEPT ![c] = [IdleH EXCEPT !.pc = "cm_send", !.kind = "send",
                                              !.msg = PlainEvent("message")]]
          ELSE h
  /\ UNCHANGED <<driven, stop, cast, now, cmVars, svcVars, cpc, dpc, hb, inbox, turns>>
  /\ Book("cm_send", c, "none", "None")

\* send_text of a send_personal_message or of a handle_message reply
\* (heartbeat_ack, pong) is over
cm_sent(c, ok) ==
  /\ driven = "manager"
  /\ h[c].pc = "cm_send"
  /\ cm_send_result(c, ok, h[c].msg)
  /\ h' = [h EXCEPT ![c] = IdleH]
  /\ UNCHANGED <<driven, stop, cast, now, svcVars, cpc, dpc, hb, turns>>
  /\ Book("cm_send", c, "none", "None")

(***************************************************************************)
(* websocket_endpoint (routes.py 25-144), for a session that exists.  It   *)
(* calls ConnectionManager.connect (lines 70-75: cm_connect,               *)
(* cm_connect_failed, cm_connect_accepted) and then                        *)
(* websocket_service.connect with the keywords connection_id, websocket,   *)
(* session_id and user_id (lines 82-87).  WebSocketService.connect takes   *)
(* websocket, connection_id, token and session_token: the call raises      *)
(* TypeError before its first await, the receive loop of lines 92-131 is   *)
(* not reached, and the finally of lines 137-144 runs.                     *)
(***************************************************************************)
\* which registries have c as a key
registered_in(cm, ws) ==
  IF cm THEN (IF ws THEN "both" ELSE "manager")
  ELSE (IF ws THEN "service" ELSE "neither")

\* the connection_established send of ConnectionManager.connect is over
\* (a failed send disconnects, lines 129-131) and connect returns True;
\* line 82 raises: the setup is over, with c registered as ret says; the
\* cleanup calls websocket_service.disconnect(c), which returns at line
\* 286, and connection_manager.disconnect(c); nothing in it suspends
endpoint_setup_end(c, ok) ==
  /\ driven = "manager"
  /\ cpc[c] = "greeting"
  /\ inbox' = IF ok
              THEN [inbox EXCEPT ![c] = Append(@, PlainEvent("connection_established"))]
              ELSE inbox
  /\ cm_disconnect_effect(c)
  /\ cpc' = [cpc EXCEPT ![c] = "cleaned"]
  /\ UNCHANGED <<driven, stop, cast, now, svcVars, dpc, h, hb, turns>>
  /\ Book("endpoint_setup", c, "TypeError",
          registered_in(ok /\ c \in active_connections, c \in connections))

(***************************************************************************)
(* ConnectionManager.broadcast_to_session (manager.py, lines 133-150).     *)
(***************************************************************************)
\* the message of the n-th broadcast
CastEvent(sid, n) == Event("broadcast", 0, sid, <<"cast", n>>, n, FALSE)

\* line 145: connection_ids = self.session_subscriptions[session_id].copy()
cm_cast_copy(subs) == subs

\* the for loop (lines 146-150) from the frame fr on: send_personal_message
\* returns at once for an id that is no key of active_connections (line
\* 124) and suspends in send_text for the next id that is one; a copy of a
\* set iterates in an order of its own
cm_cast_run(fr, conns) ==
  IF fr.rest \cap conns = {}
  THEN cast' = [fr EXCEPT !.pc = "idle", !.rest = {}, !.target = NoConn]
  ELSE \E x \in fr.rest \cap conns :
         cast' = [fr EXCEPT !.pc = "sending", !.rest = @ \ {x}, !.target = x]

\* broadcast_to_session(s, message) is called
cm_broadcast(s) ==
  /\ driven = "manager"
  /\ cast.pc = "idle"
  /\ cast.n < MaxCasts
  /\ IF s \in DOMAIN session_subscriptions
     THEN cm_cast_run([IdleCast EXCEPT !.sid = s, !.n = cast.n + 1,
                         !.copy = cm_cast_copy(session_subscriptions[s]),
                         !.rest = cm_cast_copy(session_subscriptions[s])],
                      active_connections)
     ELSE cast' = [IdleCast EXCEPT !.sid = s, !.n = cast.n + 1]
  /\ UNCHANGED <<driven, now, stop, svcVars, taskVars, cmVars, inbox, turns>>
  /\ Book("cm_broadcast", NoConn, "none", "none")

\* the send_text of the broadcast's send_personal_message is over: it put
\* the message on the socket, or raised and the id is disconnected (lines
\* 129-131); the loop goes on
cm_broadcast_sent(ok) ==
  /\ driven = "manager"
  /\ cast.pc = "sending"
  /\ cm_send_result(cast.target, ok, CastEvent(cast.sid, cast.n))
  /\ cm_cast_run([cast EXCEPT !.failed = IF ok THEN @ ELSE @ \cup {cast.target}],
                 active_connections')
  /\ UNCHANGED <<driven, now, stop, svcVars, taskVars, turns>>
  /\ Book("cm_broadcast", NoConn, "none", "none")

(***************************************************************************)
(* Time.  The clock is the wall clock (datetime.utcnow, datetime.now,      *)
(* asyncio.sleep), counted in seconds; it advances from one instant of     *)
(* Instants to the next, whatever the coroutines are doing.  Clients       *)
(* connect at these instants, and every timer set at one of them is due at *)
(* one of them.                                                            *)
(***************************************************************************)
Tick ==
  /\ \E t \in Instants : t > now
  /\ Prompt \/ late < MaxLate
  /\ now' = NextInstant
  /\ UNCHANGED <<driven, stop, cast, svcVars, taskVars, cmVars, inbox, turns>>
  /\ Book("tick", NoConn, "none", "none")

(***************************************************************************)
(* WebSocketService: start_service, _handle_ping, _heartbeat_monitor       *)
(***************************************************************************)
\* a client pings once at most, and MaxPings clients do
PingAllowed(c) ==
  /\ life[c].pings = 0
  /\ Cardinality({k \in ConnIds : life[k].pings > 0}) < MaxPings

\* line 168: if not self.heartbeat_task or self.heartbeat_task.done()
start_creates_always(task) == TRUE
start_creates(task) == task \in {"none", "done"}

\* lines 168-170: asyncio.create_task; the new task has not run yet and
\* has set no timer
start_service ==
  /\ driven = "service"
  /\ start_creates(heartbeat_task)
  /\ heartbeat_task' = "running"
  /\ hb' = [IdleHb EXCEPT !.pc = "created", !.since = now]
  /\ stop' = IF stop.pc = "idle" THEN stop ELSE [stop EXCEPT !.restarted = TRUE]
  /\ UNCHANGED <<driven, cast, now, cmVars, connections, is_active, user_id,
                 subscribed_sessions, last_ping, user_connections,
                 session_connections, cpc, dpc, h, inbox, turns>>
  /\ Book("start_service", NoConn, "none", "none")

\* line 168 with a task that is not done: start_service returns at once
start_service_again ==
  /\ driven = "service"
  /\ heartbeat_task = "running"
  /\ UNCHANGED <<driven, stop, cast, now, cmVars, svcVars, taskVars, inbox, turns>>
  /\ Book("start_service", NoConn, "none", "none")

\* handle_message(c, {"type": "ping"}): _handle_ping stamps last_ping and
\* suspends in the send of the pong
ping(c) ==
  /\ driven = "service"
  /\ cpc[c] = "open"
  /\ h[c].pc = "idle"
  /\ PingAllowed(c)
  /\ handle_admitted(c)
  /\ last_ping' = [last_ping EXCEPT ![c] = now]
  /\ h' = [h EXCEPT ![c] = [IdleH EXCEPT !.pc = "pong_send", !.kind = "ping"]]
  /\ UNCHANGED <<driven, stop, cast, now, cmVars, connections, is_active, user_id,
                 subscribed_sessions, user_connections, session_connections,
                 heartbeat_task, cpc, dpc, hb, inbox, turns>>
  /\ Book("liveness", c, "none", "none")

pong_sent(c, ok) ==
  /\ driven = "service"
  /\ h[c].pc = "pong_send"
  /\ send_result(c, ok, PlainEvent("pong"))
  /\ h' = [h EXCEPT ![c] = IdleH]
  /\ UNCHANGED <<driven, stop, cast, now, cmVars, connections, user_id, subscribed_sessions,
                 last_ping, user_connections, session_connections,
                 heartbeat_task, cpc, dpc, hb, turns>>
  /\ Book("handle_message", c, "none", "none")

\* line 777: time_since_ping > self.heartbeat_timeout
is_timed_out(age) == age > heartbeat_timeout

\* the ids of S in increasing order: the order of self.connections.items()
RECURSIVE InOrder(_)
InOrder(S) ==
  IF S = {} THEN <<>>
  ELSE LET m == CHOOSE x \in S : \A y \in S : x <= y
       IN <<m>> \o InOrder(S \ {m})

\* lines 782-783, for connection_id in timeout_connections: await
\* self.disconnect(connection_id), from the frame st on, up to the
\* suspension of a disconnect in close() or to the end of the list.  st
\* holds the registry as the run has changed it so far, the rest of the
\* list, and the age of the liveness stamp of each connection disconnected.
RECURSIVE sweep_run(_)
sweep_run(st) ==
  IF st.list = <<>> THEN [st EXCEPT !.pc = "sleeping"]
  ELSE LET c == Head(st.list) IN
       IF ~disconnect_known(st.conns, c)
       THEN sweep_run([st EXCEPT !.list = Tail(@)])
       ELSE LET st1 == [st EXCEPT !.uc = disconnect_user_index(@, c),
                                  !.sc = disconnect_session_index(@, c),
                                  !.ages = (c :> (now - last_ping[c])) @@ @]
            IN IF close_suspends(c)
               THEN [st1 EXCEPT !.pc = "closing"]
               ELSE sweep_run([st1 EXCEPT !.conns = @ \ {c}, !.list = Tail(@)])

\* the monitor goes on from its list: the registry, its frame and the
\* handlers' iterators after the run
sweep_from(conns, list) ==
  LET st == sweep_run([conns |-> conns, uc |-> user_connections,
                       sc |-> session_connections, list |-> list,
                       pc |-> "sweep", ages |-> <<>>])
  IN /\ connections' = st.conns
     /\ user_connections' = st.uc
     /\ session_connections' = st.sc
     /\ h' = HandlersAfter(st.sc, TRUE)
     /\ hb' = [hb EXCEPT !.pc = st.pc, !.timeout_connections = st.list,
                         !.wake = IF st.pc = "sleeping"
                                  THEN now + heartbeat_interval ELSE @,
                         !.swept = @ \/ st.pc = "sleeping"]
     /\ Book(IF DOMAIN st.ages = {} THEN "sweep" ELSE "evict", NoConn, "none", st.ages)

\* the first run of the monitor task, up to its first sleep (line 771):
\* the timer is set now
hb_start ==
  /\ driven = "service"
  /\ hb.pc = "created"
  /\ stop.pc # "cancelling"
  /\ hb' = [hb EXCEPT !.pc = "sleeping", !.wake = now + heartbeat_interval]
  /\ UNCHANGED <<driven, stop, cast, now, cmVars, svcVars, cpc, dpc, h, inbox, turns>>
  /\ Book("sweep", NoConn, "none", "none")

\* lines 770-790: the sleep is over; the sweep lists the overdue
\* connections and disconnects them one after the other
hb_wake ==
  /\ driven = "service"
  /\ hb.pc = "sleeping"
  /\ stop.pc # "cancelling"
  /\ now >= hb.wake
  /\ UNCHANGED <<driven, stop, cast, now, cmVars, is_active, user_id, subscribed_sessions,
                 last_ping, heartbeat_task, cpc, dpc, inbox, turns>>
  /\ sweep_from(connections,
                InOrder({c \in connections : is_timed_out(now - last_ping[c])}))

\* lines 771-794: the sleep is over and the evaluation of the entry of k
\* (line 778) raises.  The try of line 770 encloses the whole body of the
\* while: the exception leaves the for of lines 777-782, so that no entry
\* after k is evaluated and the disconnects of lines 785-786 are not
\* reached; except Exception (lines 793-794) logs it and the monitor
\* sleeps again.  The fault is an input of the step: no code under src
\* makes the evaluation raise
hb_raised(k) ==
  /\ driven = "service"
  /\ hb.pc = "sleeping"
  /\ stop.pc # "cancelling"
  /\ now >= hb.wake
  /\ k \in connections
  /\ hb' = [hb EXCEPT !.wake = now + heartbeat_interval]
  /\ UNCHANGED <<driven, stop, cast, now, cmVars, svcVars, cpc, dpc, h, inbox, turns>>
  /\ Book("sweep_raised", k, "Exception", "none")

\* websocket.close of the sweep's disconnect is over: finally: is_active =
\* False, del self.connections[...] (KeyError, caught, if it is gone), and
\* the sweep goes on
hb_closed ==
  /\ driven = "service"
  /\ hb.pc = "closing"
  /\ stop.pc # "cancelling"
  /\ is_active' = [is_active EXCEPT ![Head(hb.timeout_connections)] = FALSE]
  /\ UNCHANGED <<driven, stop, cast, now, cmVars, user_id, subscribed_sessions,
                 last_ping, heartbeat_task, cpc, dpc, inbox, turns>>
  /\ sweep_from(connections \ {Head(hb.timeout_connections)},
                Tail(hb.timeout_connections))

(***************************************************************************)
(* WebSocketService.stop_service.  Once the task is cancelled, the         *)
(* monitor's next step is the CancelledError at its await (hb_wake and     *)
(* hb_closed are off meanwhile).                                           *)
(***************************************************************************)
\* lines 187-188, for connection in list(self.connections.values()): await
\* connection.close(...), over the objects of `list`: close() suspends in
\* websocket.close only for an active connection (line 121)
RECURSIVE stop_skip(_)
stop_skip(list) ==
  IF list = <<>> THEN <<>>
  ELSE IF close_suspends(Head(list)) THEN list
  ELSE stop_skip(Tail(list))

\* lines 190-192: the three dicts are cleared; a set that an iterator
\* holds stays as it is
stop_clear ==
  /\ connections' = {}
  /\ user_connections' = EmptyDict
  /\ session_connections' = EmptyDict
  /\ h' = HandlersAfter(EmptyDict, FALSE)
  /\ stop' = IdleStop

\* the step of stop_service in which the call returns
stop_op == IF stop'.pc = "idle" THEN "stop_return" ELSE "stop_service"

\* the loop from `list` on, up to a close that suspends or to the return
stop_run(list) ==
  IF stop_skip(list) = <<>> THEN stop_clear
  ELSE /\ stop' = [stop EXCEPT !.pc = "closing", !.list = stop_skip(list)]
       /\ UNCHANGED <<connections, user_connections, session_connections, h>>

\* stop_service is called: lines 179-184 cancel a monitor that is not done
\* and await it; without one the loop over the connections starts
stop_service ==
  /\ driven = "service"
  /\ stop.pc = "idle"
  /\ IF heartbeat_task = "running"
     THEN /\ stop' = [IdleStop EXCEPT !.pc = "cancelling"]
          /\ UNCHANGED <<connections, user_connections, session_connections, h>>
     ELSE stop_run(InOrder(connections))
  /\ UNCHANGED <<driven, cast, now, cmVars, is_active, user_id, subscribed_sessions,
                 last_ping, heartbeat_task, cpc, dpc, hb, inbox, turns>>
  /\ Book(stop_op, NoConn, "none", "none")

\* the cancelled monitor runs: CancelledError at its await, caught at line
\* 791; the task is done, and the stop_service that awaits it (line 182)
\* can go on.  A task cancelled before its first run is done without
\* running its body.  Raised inside the websocket.close of a sweep's
\* disconnect, it passes close() (except Exception, line 123, does not
\* catch it; finally: is_active = False) and disconnect (line 310), so
\* that del self.connections[...] (line 307) is not reached
hb_cancelled ==
  /\ driven = "service"
  /\ stop.pc = "cancelling"
  /\ heartbeat_task = "running"
  /\ heartbeat_task' = "done"
  /\ is_active' = IF hb.pc = "closing"
                  THEN [is_active EXCEPT ![Head(hb.timeout_connections)] = FALSE]
                  ELSE is_active
  /\ hb' = IdleHb
  /\ stop' = [stop EXCEPT !.pc = "resuming"]
  /\ UNCHANGED <<driven, cast, now, cmVars, connections, user_id,
                 subscribed_sessions, last_ping, user_connections,
                 session_connections, cpc, dpc, h, inbox, turns>>
  /\ Book("stop_service", NoConn, "none", "none")

\* await self.heartbeat_task is over (line 182): the task this call
\* cancelled is done, whatever self.heartbeat_task holds by now
stop_resumed ==
  /\ driven = "service"
  /\ stop.pc = "resuming"
  /\ stop_run(InOrder(connections))
  /\ UNCHANGED <<driven, cast, now, cmVars, is_active, user_id, subscribed_sessions,
                 last_ping, heartbeat_task, cpc, dpc, hb, inbox, turns>>
  /\ Book(stop_op, NoConn, "none", "none")

\* websocket.close of the loop returned or raised (both swallowed by
\* close()): finally: is_active = False; the loop goes on
stop_closed ==
  /\ driven = "service"
  /\ stop.pc = "closing"
  /\ is_active' = [is_active EXCEPT ![Head(stop.list)] = FALSE]
  /\ stop_run(Tail(stop.list))
  /\ UNCHANGED <<driven, cast, now, cmVars, user_id, subscribed_sessions,
                 last_ping, heartbeat_task, cpc, dpc, hb, inbox, turns>>
  /\ Book(stop_op, NoConn, "none", "none")

(***************************************************************************)
(* ConnectionManager: handle_message, _heartbeat_loop                      *)
(***************************************************************************)
\* handle_message(c, '{"type": "heartbeat"}'): lines 165-173
cm_heartbeat(c) ==
  /\ driven = "manager"
  /\ cpc[c] = "open"
  /\ h[c].pc = "idle"
  /\ PingAllowed(c)
  /\ connection_metadata' =
       IF c \in DOMAIN connection_metadata
       THEN [connection_metadata EXCEPT ![c].last_heartbeat = now]
       ELSE connection_metadata
  /\ h' = IF c \in active_connections
          THEN [h EXCEPT ![c] = [IdleH EXCEPT !.pc = "cm_send", !.kind = "heartbeat",
                                              !.msg = PlainEvent("heartbeat_ack")]]
          ELSE h
  /\ UNCHANGED <<driven, stop, cast, now, svcVars, active_connections, session_subscriptions,
                 heartbeat_tasks, loop, cpc, dpc, hb, inbox, turns>>
  /\ Book("liveness", c, "none", "none")

\* handle_message(c, '{"type": "ping"}'): lines 175-180, the pong is sent
\* with send_personal_message (which returns at once for an id that is no
\* key of active_connections); last_heartbeat is left as it is
cm_ping(c) ==
  /\ driven = "manager"
  /\ cpc[c] = "open"
  /\ h[c].pc = "idle"
  /\ Len(inbox[c]) < MaxInbox
  /\ h' = IF c \in active_connections
          THEN [h EXCEPT ![c] = [IdleH EXCEPT !.pc = "cm_send", !.kind = "ping",
                                              !.msg = PlainEvent("pong")]]
          ELSE h
  /\ UNCHANGED <<driven, stop, cast, now, cmVars, svcVars, cpc, dpc, hb, inbox, turns>>
  /\ Book("cm_handle_message", c, "none", "None")

\* the first run of the heartbeat task of c (lines 197-199): the loop
\* tests its condition and sleeps; the timer is set now
cm_loop_start(c) ==
  /\ driven = "manager"
  /\ loop[c].pc = "created"
  /\ loop' = [loop EXCEPT ![c] =
                IF c \in active_connections
                THEN [pc |-> "sleeping", wake |-> now + cm_heartbeat_interval]
                ELSE [@ EXCEPT !.pc = "done"]]
  /\ UNCHANGED <<driven, stop, cast, now, svcVars, taskVars, active_connections,
                 session_subscriptions, connection_metadata, heartbeat_tasks,
                 inbox, turns>>
  /\ Book("cm_loop", c, "none", "none")

\* line 210: time_diff > 60
cm_is_timed_out(age) == age > cm_heartbeat_timeout

\* _heartbeat_loop(c) after its sleep (lines 201-220): the task ends if the
\* metadata is gone, disconnects an overdue connection and ends, or
\* suspends in the send of heartbeat_request
cm_loop_wake(c) ==
  /\ driven = "manager"
  /\ loop[c].pc = "sleeping"
  /\ now >= loop[c].wake
  /\ UNCHANGED <<driven, stop, cast, now, svcVars, taskVars, inbox, turns>>
  /\ IF c \notin DOMAIN connection_metadata
     THEN /\ loop' = [loop EXCEPT ![c].pc = "done"]
          /\ UNCHANGED <<active_connections, session_subscriptions,
                         connection_metadata, heartbeat_tasks>>
          /\ Book("cm_loop", c, "none", "none")
     ELSE IF cm_is_timed_out(now - connection_metadata[c].last_heartbeat)
     THEN /\ cm_disconnect_by(c, TRUE)
          /\ Book("evict", c, "none",
                  c :> (now - connection_metadata[c].last_heartbeat))
     ELSE /\ loop' = [loop EXCEPT ![c].pc = "sending"]
          /\ UNCHANGED <<active_connections, session_subscriptions,
                         connection_metadata, heartbeat_tasks>>
          /\ Book("cm_loop", c, "none", "none")

\* the send of heartbeat_request is over (lines 217-220): the loop tests
\* its condition and sleeps again, or the failed send disconnects
cm_loop_sent(c, ok) ==
  /\ driven = "manager"
  /\ loop[c].pc = "sending"
  /\ inbox' = IF ok THEN [inbox EXCEPT ![c] = Append(@, PlainEvent("heartbeat_request"))]
              ELSE inbox
  /\ IF ok
     THEN /\ loop' = [loop EXCEPT ![c] =
                        IF c \in active_connections
                        THEN [pc |-> "sleeping", wake |-> now + cm_heartbeat_interval]
                        ELSE [@ EXCEPT !.pc = "done"]]
          /\ UNCHANGED <<active_connections, session_subscriptions,
                         connection_metadata, heartbeat_tasks>>
     ELSE cm_disconnect_by(c, TRUE)
  /\ UNCHANGED <<driven, stop, cast, now, svcVars, taskVars, turns>>
  /\ Book("cm_loop", c, "none", "none")

\* a cancelled heartbeat task runs: CancelledError at its await (the sleep
\* of line 199 or the send_text of line 128, which `except Exception`
\* does not catch), caught at line 221; the task is over.  A task that
\* was cancelled before its first run is over without running its body
cm_loop_cancelled(c) ==
  /\ driven = "manager"
  /\ loop[c].pc = "cancelled"
  /\ loop' = [loop EXCEPT ![c].pc = "done"]
  /\ UNCHANGED <<driven, stop, cast, now, svcVars, taskVars, active_connections,
                 session_subscriptions, connection_metadata, heartbeat_tasks,
                 inbox, turns>>
  /\ Book("cm_loop", c, "none", "none")

(***************************************************************************)
(* Initial state: both registries as their constructors leave them.        *)
(***************************************************************************)
Init ==
  /\ driven \in {"service", "manager"}
  /\ now = 0
  /\ connections = {}
  /\ is_active = [c \in ConnIds |-> FALSE]
  /\ user_id = [c \in ConnIds |-> NoUser]
  /\ subscribed_sessions = [c \in ConnIds |-> {}]
  /\ last_ping = [c \in ConnIds |-> 0]
  /\ user_connections = EmptyDict
  /\ session_connections = EmptyDict
  /\ heartbeat_task = "none"
  /\ cpc = [c \in ConnIds |-> "unused"]
  /\ dpc = [c \in ConnIds |-> 0]
  /\ h = [c \in ConnIds |-> IdleH]
  /\ hb = IdleHb
  /\ stop = IdleStop
  /\ cast = IdleCast
  /\ sys = IdleSys
  /\ late = 0
  /\ inbox = [c \in ConnIds |-> <<>>]
  /\ turns = <<>>
  /\ active_connections = {}
  /\ session_subscriptions = EmptyDict
  /\ connection_metadata = EmptyDict
  /\ heartbeat_tasks = {}
  /\ loop = [c \in ConnIds |-> IdleLoop]
  /\ track = <<>>
  /\ life = [c \in ConnIds |-> NoLife]
  /\ log = NoCall

NextRegistry ==
  \/ \E c \in ConnIds : connect(c)
  \/ \E c \in ConnIds : connect_failed(c)
  \/ \E c \in ConnIds, u \in UserIds \cup {NoUser} : connect_accepted(c, u)
  \/ \E c \in ConnIds, ok \in BOOLEAN : connect_greeted(c, ok)
  \/ \E c \in ConnIds : dpc[c] = 0 /\ disconnect(c)
  \/ \E c \in ConnIds : disconnect_resume(c)
  \/ \E c \in ConnIds, s \in SessionIds : subscribe_session(c, s)
  \/ \E c \in ConnIds, s \in SessionIds : unsubscribe_session(c, s)
  \/ \E c \in ConnIds : cm_connect(c)
  \/ \E c \in ConnIds : cm_connect_failed(c)
  \/ \E c \in ConnIds, s \in SessionIds : cm_connect_accepted(c, s)
  \/ \E c \in ConnIds : cm_loop_start(c)
  \/ \E c \in ConnIds, ok \in BOOLEAN : cm_connect_greeted(c, ok)
  \/ \E c \in ConnIds : cm_disconnect(c)
  \/ \E c \in ConnIds : cm_send_personal_message(c)
  \/ \E c \in ConnIds, ok \in BOOLEAN : cm_sent(c, ok)
  \/ \E c \in ConnIds, form \in RejectedForms : other_message(c, form)
  \/ \E c \in ConnIds, ok \in BOOLEAN : error_reply_sent(c, ok)
  \/ \E c \in ConnIds, form \in CmRejectedForms : cm_handle_message(c, form)
  \/ \E c \in ConnIds : cm_ping(c)
  \/ \E c \in ConnIds : cm_loop_cancelled(c)

\* The two registries with disconnect calls that overlap: a disconnect(c)
\* may start while earlier calls for the same id are suspended in close().
\* (In NextRegistry and in NextIndex a disconnect(c) starts when none is.)
NextOverlap ==
  \/ \E c \in ConnIds : connect(c)
  \/ \E c \in ConnIds, u \in UserIds \cup {NoUser} : connect_accepted(c, u)
  \/ \E c \in ConnIds, ok \in BOOLEAN : connect_greeted(c, ok)
  \/ \E c \in ConnIds : disconnect(c)
  \/ \E c \in ConnIds : disconnect_resume(c)
  \/ \E c \in ConnIds, s \in SessionIds : subscribe_session(c, s)
  \/ \E c \in ConnIds, s \in SessionIds : unsubscribe_session(c, s)
  \/ \E c \in ConnIds : cm_connect(c)
  \/ \E c \in ConnIds, s \in SessionIds : cm_connect_accepted(c, s)
  \/ \E c \in ConnIds : cm_loop_start(c)
  \/ \E c \in ConnIds, ok \in BOOLEAN : cm_connect_greeted(c, ok)
  \/ \E c \in ConnIds : cm_disconnect(c)
  \/ \E c \in ConnIds : cm_loop_cancelled(c)

\* the operations on the indexes of WebSocketService: connect, disconnect,
\* subscribe_session, unsubscribe_session, the handling of session_delete
\* and stop_service (without a monitor to cancel)
NextIndex ==
  \/ \E c \in ConnIds : connect(c)
  \/ \E c \in ConnIds, u \in UserIds \cup {NoUser} : connect_accepted(c, u)
  \/ \E c \in ConnIds : connect_greeted(c, TRUE)
  \/ \E c \in ConnIds : dpc[c] = 0 /\ disconnect(c)
  \/ \E c \in ConnIds : disconnect_resume(c)
  \/ \E c \in ConnIds : subscribe_session(c, "S1")
  \/ \E c \in ConnIds : unsubscribe_session(c, "S1")
  \/ \E c \in ConnIds : session_delete(c, TRUE, "S1")
  \/ \E c \in ConnIds : delete_answered(c, TRUE)
  \/ \E c \in ConnIds : delete_sent(c, TRUE)
  \/ stop_service
  \/ stop_closed

NextChat ==
  \/ \E c \in ConnIds : connect(c)
  \/ \E c \in ConnIds : connect_accepted(c, NoUser)
  \/ \E c \in ConnIds, ok \in BOOLEAN : connect_greeted(c, ok)
  \/ \E c \in ConnIds : disconnect(c)
  \/ \E c \in ConnIds : disconnect_resume(c)
  \/ \E c \in ConnIds, mode \in SentModes : chat_message(c, "valid", "S1", mode)
  \/ \E c \in ConnIds : chat_answered(c, Reply(h[c].turn), TRUE)
  \/ \E c \in ConnIds : chat_raised(c)
  \/ \E c \in ConnIds, ok \in BOOLEAN : chat_error_sent(c, ok)

\* a disconnect of c is suspended in the close of its socket
Closing(c) ==
  \/ dpc[c] > 0
  \/ hb.pc = "closing" /\ Head(hb.timeout_connections) = c

\* start_service is called in one of the first seconds, before or after
\* the first client connects; subscribe_session is called at any instant.
NextTime ==
  \/ Tick
  \/ now \in StartTimes /\ start_service
  \/ hb_start
  \/ \E c \in ConnIds : connect(c)
  \/ \E c \in ConnIds : connect_accepted(c, NoUser)
  \/ \E c \in ConnIds, ok \in BOOLEAN : connect_greeted(c, ok)
  \/ \E c \in ConnIds : subscribe_session(c, "S1")
  \/ \E c \in ConnIds : ping(c)
  \/ \E c \in ConnIds, ok \in BOOLEAN : pong_sent(c, ok)
  \/ hb_wake
  \/ hb_closed
  \/ \E c \in ConnIds : cm_connect(c)
  \/ \E c \in ConnIds : cm_connect_accepted(c, "S1")
  \/ \E c \in ConnIds : cm_loop_start(c)
  \/ \E c \in ConnIds, ok \in BOOLEAN : cm_connect_greeted(c, ok)
  \/ \E c \in ConnIds : cm_heartbeat(c)
  \/ \E c \in ConnIds, ok \in BOOLEAN : cm_sent(c, ok)
  \/ \E c \in ConnIds : cm_loop_wake(c)
  \/ \E c \in ConnIds, ok \in BOOLEAN : cm_loop_sent(c, ok)
  \/ \E c \in ConnIds : cm_loop_cancelled(c)

\* WebSocketService with its sweep: start_service is called at instant 0,
\* before any client connects; a connection is subscribed to its session
\* in the second in which it is registered, and not while a disconnect is
\* closing its socket
NextSweep ==
  \/ Tick
  \/ now = 0 /\ start_service
  \/ hb_start
  \/ \E c \in ConnIds : connect(c)
  \/ \E c \in ConnIds : connect_accepted(c, NoUser)
  \/ \E c \in ConnIds, ok \in BOOLEAN : connect_greeted(c, ok)
  \/ \E c \in ConnIds :
       now = life[c].born /\ ~Closing(c) /\ subscribe_session(c, "S1")
  \/ \E c \in ConnIds : ping(c)
  \/ \E c \in ConnIds, ok \in BOOLEAN : pong_sent(c, ok)
  \/ hb_wake
  \/ hb_closed

\* NextSweep without subscriptions, with sweeps in which the evaluation of
\* an entry raises
NextFault ==
  \/ Tick
  \/ now = 0 /\ start_service
  \/ hb_start
  \/ \E c \in ConnIds : connect(c)
  \/ \E c \in ConnIds : connect_accepted(c, NoUser)
  \/ \E c \in ConnIds, ok \in BOOLEAN : connect_greeted(c, ok)
  \/ \E c \in ConnIds : ping(c)
  \/ \E c \in ConnIds, ok \in BOOLEAN : pong_sent(c, ok)
  \/ hb_wake
  \/ hb_closed
  \/ \E k \in ConnIds : hb_raised(k)

\* Broadcasts while the set they go over changes: clients connect as
\* user u1, subscribe to S1, unsubscribe and disconnect while a system
\* message is sent to S1 or to u1.
NextCast ==
  \/ \E c \in ConnIds : connect(c)
  \/ \E c \in ConnIds, u \in UserIds : connect_accepted(c, u)
  \/ \E c \in ConnIds : connect_greeted(c, TRUE)
  \/ \E c \in ConnIds : disconnect(c)
  \/ \E c \in ConnIds : disconnect_resume(c)
  \/ \E c \in ConnIds : subscribe_session(c, "S1")
  \/ \E c \in ConnIds : unsubscribe_session(c, "S1")
  \/ send_system_message("session", "S1", NoConn)
  \/ \E u \in UserIds : send_system_message("user", u, NoConn)
  \/ \E ok \in BOOLEAN : system_sent(ok)
  \/ \E c \in ConnIds : cm_connect(c)
  \/ \E c \in ConnIds : cm_connect_accepted(c, "S1")
  \/ \E c \in ConnIds : cm_loop_start(c)
  \/ \E c \in ConnIds : cm_connect_greeted(c, TRUE)
  \/ \E c \in ConnIds : cm_disconnect(c)
  \/ cm_broadcast("S1")
  \/ \E ok \in BOOLEAN : cm_broadcast_sent(ok)
  \/ \E c \in ConnIds : cm_loop_cancelled(c)

\* session_delete messages next to a chat turn on the same session and to
\* session_create and session_update messages
NextDelete ==
  \/ \E c \in ConnIds : connect(c)
  \/ \E c \in ConnIds : connect_accepted(c, NoUser)
  \/ \E c \in ConnIds : connect_greeted(c, TRUE)
  \/ \E c \in ConnIds : subscribe_session(c, "S1")
  \/ \E c \in ConnIds : unsubscribe_session(c, "S1")
  \/ \E c \in ConnIds :
       Len(turns) < MaxCastTurns /\ chat_message(c, "valid", "S1", "NORMAL")
  \/ \E c \in ConnIds : chat_answered(c, Reply(h[c].turn), TRUE)
  \/ \E c \in ConnIds : chat_raised(c)
  \/ \E c \in ConnIds, ok \in BOOLEAN : chat_error_sent(c, ok)
  \/ \E c \in ConnIds, valid \in BOOLEAN : session_delete(c, valid, "S1")
  \/ \E c \in ConnIds, success \in BOOLEAN : delete_answered(c, success)
  \/ \E c \in ConnIds : delete_raised(c)
  \/ \E c \in ConnIds, ok \in BOOLEAN : delete_sent(c, ok)
  \/ \E c \in ConnIds, ok \in BOOLEAN : delete_error_sent(c, ok)
  \/ \E c \in ConnIds, valid \in BOOLEAN : session_create(c, valid)
  \/ \E c \in ConnIds : create_answered(c, "S1", Created)
  \/ \E c \in ConnIds : create_raised(c)
  \/ \E c \in ConnIds, valid \in BOOLEAN : session_update(c, valid, "S1")
  \/ \E c \in ConnIds, found \in BOOLEAN : update_answered(c, found, Updated)
  \/ \E c \in ConnIds : update_raised(c)
  \/ \E c \in ConnIds, ok \in BOOLEAN : session_error_sent(c, ok)

\* session_delete messages next to a system message for the same session
NextLate ==
  \/ \E c \in ConnIds : connect(c)
  \/ \E c \in ConnIds : connect_accepted(c, NoUser)
  \/ \E c \in ConnIds : connect_greeted(c, TRUE)
  \/ \E c \in ConnIds : subscribe_session(c, "S1")
  \/ \E c \in ConnIds : unsubscribe_session(c, "S1")
  \/ \E c \in ConnIds, valid \in BOOLEAN : session_delete(c, valid, "S1")
  \/ \E c \in ConnIds, success \in BOOLEAN : delete_answered(c, success)
  \/ \E c \in ConnIds : delete_raised(c)
  \/ \E c \in ConnIds, ok \in BOOLEAN : delete_sent(c, ok)
  \/ \E c \in ConnIds, ok \in BOOLEAN : delete_error_sent(c, ok)
  \/ send_system_message("session", "S1", NoConn)
  \/ \E ok \in BOOLEAN : system_sent(ok)

\* start_service and stop_service of WebSocketService, called at any
\* moment, next to guests that connect, subscribe to S1 and disconnect
NextService ==
  \/ start_service
  \/ hb_start
  \/ start_service_again
  \/ stop_service
  \/ hb_cancelled
  \/ stop_resumed
  \/ stop_closed
  \/ \E c \in ConnIds : connect(c)
  \/ \E c \in ConnIds : connect_accepted(c, NoUser)
  \/ \E c \in ConnIds, ok \in BOOLEAN : connect_greeted(c, ok)
  \/ \E c \in ConnIds : disconnect(c)
  \/ \E c \in ConnIds : disconnect_resume(c)
  \/ \E c \in ConnIds : subscribe_session(c, "S1")

\* A system message for one connection or for all of them, next to guests
\* that connect and disconnect and to stop_service (without a monitor to
\* cancel)
NextSystem ==
  \/ \E c \in ConnIds : connect(c)
  \/ \E c \in ConnIds : connect_accepted(c, NoUser)
  \/ \E c \in ConnIds : connect_greeted(c, TRUE)
  \/ \E c \in ConnIds : disconnect(c)
  \/ \E c \in ConnIds : disconnect_resume(c)
  \/ stop_service
  \/ stop_closed
  \/ \E c \in ConnIds : send_system_message("connection", NoSession, c)
  \/ send_system_message("all", NoSession, NoConn)
  \/ \E ok \in BOOLEAN : system_sent(ok)

\* ConnectionManager with its heartbeat loops: clients connect to S1 in
\* the first second, send a heartbeat or stay silent, and are disconnected
\* from outside at any moment, also before their heartbeat task has run
NextLoop ==
  \/ Tick
  \/ \E c \in ConnIds : now = 0 /\ cm_connect(c)
  \/ \E c \in ConnIds : cm_connect_failed(c)
  \/ \E c \in ConnIds : cm_connect_accepted(c, "S1")
  \/ \E c \in ConnIds : cm_loop_start(c)
  \/ \E c \in ConnIds, ok \in BOOLEAN : cm_connect_greeted(c, ok)
  \/ \E c \in ConnIds : cm_disconnect(c)
  \/ \E c \in ConnIds : cm_heartbeat(c)
  \/ \E c \in ConnIds, ok \in BOOLEAN : cm_sent(c, ok)
  \/ \E c \in ConnIds : cm_loop_wake(c)
  \/ \E c \in ConnIds, ok \in BOOLEAN : cm_loop_sent(c, ok)
  \/ \E c \in ConnIds : cm_loop_cancelled(c)

\* websocket_endpoint for clients that connect to S1 or S2, next to the
\* force_disconnect route
NextEndpoint ==
  \/ Tick
  \/ \E c \in ConnIds : cm_connect(c)
  \/ \E c \in ConnIds : cm_connect_failed(c)
  \/ \E c \in ConnIds, s \in SessionIds : cm_connect_accepted(c, s)
  \/ \E c \in ConnIds : cm_loop_start(c)
  \/ \E c \in ConnIds, ok \in BOOLEAN : endpoint_setup_end(c, ok)
  \/ \E c \in ConnIds : cm_disconnect(c)
  \/ \E c \in ConnIds : cm_loop_cancelled(c)

\* The handlers next to a Chat Collaborator whose answers have every
\* attribute that the handlers read (no class of the repository does): the
\* answer of a turn, the reply to session_create and the update of a
\* session are sent.
Complete(reads) == Answer(reads, 0)
NextAnswer ==
  \/ \E c \in ConnIds : connect(c)
  \/ \E c \in ConnIds : connect_accepted(c, NoUser)
  \/ \E c \in ConnIds : connect_greeted(c, TRUE)
  \/ \E c \in ConnIds : subscribe_session(c, "S1")
  \/ \E c \in ConnIds :
       Len(turns) < MaxCastTurns /\ chat_message(c, "valid", "S1", "NORMAL")
  \/ \E c \in ConnIds :
       chat_answered(c, Answer(ChatResponseReads, h[c].turn), TRUE)
  \/ \E c \in ConnIds, ok \in BOOLEAN : broadcast_sent(c, ok)
  \/ \E c \in ConnIds : session_create(c, TRUE)
  \/ \E c \in ConnIds : create_answered(c, "S1", Complete(SessionCreateReads))
  \/ \E c \in ConnIds, ok \in BOOLEAN : create_sent(c, ok)
  \/ \E c \in ConnIds :
       /\ \A k \in ConnIds : Len(inbox[k]) < MaxInbox /\ h[k].pc = "idle"
       /\ session_update(c, TRUE, "S1")
  \/ \E c \in ConnIds : update_answered(c, TRUE, Complete(SessionUpdateReads))
  \/ \E c \in ConnIds, ok \in BOOLEAN : update_sent(c, ok)

Spec == Init /\ [][NextRegistry]_vars
SpecAnswer == Init /\ [][NextAnswer]_vars
SpecSystem == Init /\ [][NextSystem]_vars
SpecEndpoint == Init /\ [][NextEndpoint]_vars
\* the event loop runs every task that is ready: a cancelled heartbeat
\* task gets its CancelledError
SpecLoop ==
  /\ Init /\ [][NextLoop]_vars
  /\ \A c \in ConnIds : WF_vars(cm_loop_cancelled(c))
SpecService == Init /\ [][NextService]_vars
SpecOverlap == Init /\ [][NextOverlap]_vars
SpecDelete == Init /\ [][NextDelete]_vars
SpecLate == Init /\ [][NextLate]_vars
SpecCast == Init /\ [][NextCast]_vars
SpecIndex == Init /\ [][NextIndex]_vars
SpecTime == Init /\ [][NextTime]_vars
SpecFault == Init /\ [][NextFault]_vars
\* the sweep keeps running: the clock advances, the monitor wakes when
\* its sleep is over, and every await that is pending returns
SpecSweep ==
  /\ Init /\ [][NextSweep]_vars
  /\ WF_vars(Tick) /\ WF_vars(hb_start) /\ WF_vars(hb_wake) /\ WF_vars(hb_closed)
  /\ WF_vars(\E c \in ConnIds : connect_accepted(c, NoUser))
  /\ WF_vars(\E c \in ConnIds, ok \in BOOLEAN : connect_greeted(c, ok))
  /\ WF_vars(\E c \in ConnIds, ok \in BOOLEAN : pong_sent(c, ok))
SpecChat == Init /\ [][NextChat]_vars

\* the peer whose socket never completes a close
SlowPeer == 1
\* the sweep keeps running next to a slow peer: as SpecSweep, but the
\* websocket.close of the slow peer need never return
SpecSlow ==
  /\ Init /\ [][NextSweep]_vars
  /\ WF_vars(Tick) /\ WF_vars(hb_start) /\ WF_vars(hb_wake)
  /\ WF_vars(hb_closed /\ Head(hb.timeout_connections) # SlowPeer)
  /\ WF_vars(\E c \in ConnIds : connect_accepted(c, NoUser))
  /\ WF_vars(\E c \in ConnIds, ok \in BOOLEAN : connect_greeted(c, ok))
  /\ WF_vars(\E c \in ConnIds, ok \in BOOLEAN : pong_sent(c, ok))

(***************************************************************************)
(* Properties.                                                             *)
(***************************************************************************)
\* the events of turn t that connection k's socket accepted, in order
EventsOf(k, t) == SelectSeq(inbox[k], LAMBDA e : e.turn = t)
TypedEventsOf(k, t, type) ==
  SelectSeq(inbox[k], LAMBDA e : e.turn = t /\ e.type = type)
\* the chunks of turn t among them: what the collaborator produced
ChunksOf(k, t) == SelectSeq(inbox[k], LAMBDA e : e.turn = t /\ e.type # "chat_error")
Subscribers(sid) ==
  IF sid \in DOMAIN session_connections THEN session_connections[sid] ELSE {}
Finished(t) == turns[t].state = "done"
Undisturbed(t) == ~track[t].grown /\ ~track[t].shrunk

\* C1: every connection id in a session's subscriber set is a key of
\* connections, in every reachable state of WebSocketService (suspension
\* points of disconnect included).
C1_NoDanglingSubscriber ==
  /\ Members(session_connections) \subseteq connections
  /\ Members(session_subscriptions) \subseteq active_connections

\* C2: once disconnect(c) has returned, c is in no session's subscriber set
\* and in no user's connection set.
C2_GoneAfterUnregister ==
  /\ log.op = "disconnect" =>
       /\ log.c \notin Members(session_connections)
       /\ log.c \notin Members(user_connections)
  /\ log.op = "cm_disconnect" => log.c \notin Members(session_subscriptions)

\* C3: a disconnect(c) that returns right after a disconnect(c) returned
\* changes nothing in the connection set, the session index and the user
\* index (nor in any other field of the registry) and returns normally;
\* when it was called after the other had returned (it starts and returns
\* in one step, no call of it being resumed), it catches no exception
\* either.  For WebSocketService and for ConnectionManager.
C3_UnregisterIdempotent ==
  [][log'.again =>
       /\ UNCHANGED <<svcVars, cmVars>>
       /\ log'.ret = "None"
       /\ dpc' = dpc => log'.exc = "none"]_vars

\* C3 happens: disconnect has just returned a second time in a row for a
\* connection that had been registered.
C3_Witness == log.again /\ log.op = "disconnect" /\ life[log.c].born >= 0

\* C4: a chat_message turn answered in normal mode, with the session's
\* subscriber set untouched while the answer is broadcast: every subscriber
\* that stayed registered and active, the sender included, has received
\* exactly one chat_response of the turn, carrying the collaborator's
\* content and the turn's session id; nobody has received it twice.
C4_OneResponseEach ==
  \A t \in 1..Len(turns) :
    (Finished(t) /\ turns[t].outcome = "ok" /\ ~turns[t].stream /\ Undisturbed(t)) =>
      /\ \A k \in track[t].alive :
           /\ Len(EventsOf(k, t)) = 1
           /\ EventsOf(k, t)[1].type = "chat_response"
           /\ EventsOf(k, t)[1].content = turns[t].content
           /\ EventsOf(k, t)[1].sid = turns[t].sid
      /\ \A k \in ConnIds : Len(EventsOf(k, t)) <= 1

\* the chunks of every turn lie on every socket in the order in which the
\* collaborator produced them (increasing sequence numbers), and two
\* subscribers that stayed for the whole undisturbed turn, which the
\* collaborator answered, hold the same sequence of its chunks
ProductionOrder ==
  \A t \in 1..Len(turns) :
    /\ \A k \in ConnIds :
         \A i, j \in 1..Len(ChunksOf(k, t)) :
           i < j => ChunksOf(k, t)[i].seq < ChunksOf(k, t)[j].seq
    /\ (Finished(t) /\ turns[t].outcome = "ok" /\ Undisturbed(t)) =>
         \A k1, k2 \in track[t].alive : ChunksOf(k1, t) = ChunksOf(k2, t)

\* C6: when the collaborator raises in a turn, no connection other than
\* the sender receives any event of the turn, the sender receives no event
\* of it but chat_error, never more than one, and exactly one if its
\* socket is still active when the turn is over.
C6_FailureIsolated ==
  \A t \in 1..Len(turns) :
    turns[t].outcome = "failed" =>
      /\ \A k \in ConnIds \ {turns[t].origin} : Len(EventsOf(k, t)) = 0
      /\ Len(EventsOf(turns[t].origin, t)) <= 1
      /\ \A i \in 1..Len(EventsOf(turns[t].origin, t)) :
           EventsOf(turns[t].origin, t)[i].type = "chat_error"
      /\ (Finished(t) /\ is_active[turns[t].origin]) =>
           Len(EventsOf(turns[t].origin, t)) = 1

\* C6 happens: a failed, finished turn whose sender holds the chat_error
\* while another connection is subscribed to the session.
C6_Witness ==
  \E t \in 1..Len(turns) :
    /\ Finished(t) /\ turns[t].outcome = "failed" /\ turns[t].errsent = "ok"
    /\ Len(TypedEventsOf(turns[t].origin, t, "chat_error")) = 1
    /\ \E k \in Subscribers(turns[t].sid) \ {turns[t].origin} :
         k \in connections /\ is_active[k]

\* C7: (a) a connection whose liveness stamp is older than the timeout when
\* a sweep runs is unregistered by that sweep: none is left when the sweep
\* is over, nor when the heartbeat loop of ConnectionManager goes on to its
\* heartbeat_request (the clock not having advanced while the sweep was at
\* work); (b) the heartbeat logic never disconnects a connection whose
\* liveness stamp is younger than two heartbeat intervals.
C7_SweepEvictsOverdue ==
  /\ (late = 0 /\ hb.swept /\ hb.pc = "sleeping"
        /\ hb.wake = now + heartbeat_interval) =>
       \A c \in connections : ~is_timed_out(now - last_ping[c])
  /\ \A c \in active_connections :
       (late = 0 /\ loop[c].pc = "sending") =>
         ~cm_is_timed_out(now - connection_metadata[c].last_heartbeat)
C7_NeverEvictedEarly ==
  \A c \in ConnIds :
    life[c].evicted >= 0 => life[c].evicted >= 2 * heartbeat_interval
C7_HeartbeatEviction == C7_SweepEvictsOverdue /\ C7_NeverEvictedEarly

\* a connection that was registered and never sent a ping or heartbeat
Silent(c) == life[c].born >= 0 /\ life[c].pings = 0
\* the heartbeat logic was running when c connected, and still is
Monitored(c) ==
  \/ driven = "manager"
  \/ heartbeat_task = "running" /\ hb.since <= life[c].born
Gone(c) ==
  /\ c \notin connections /\ c \notin Members(session_connections)
  /\ c \notin active_connections /\ c \notin Members(session_subscriptions)

\* C8: a connection that sends no heartbeat is out of the registry and of
\* its session's subscriber set once more than two heartbeat intervals
\* have passed since it connected, whatever the phase of the sweep (socket
\* I/O and the event loop having taken no time: the clock was never late).
C8_RemovedAfterTwoIntervals ==
  \A c \in ConnIds :
    (late = 0 /\ Silent(c) /\ Monitored(c)
       /\ now - life[c].born > 2 * heartbeat_interval) => Gone(c)

\* C9: no event of a later turn on a session is delivered before the
\* earlier turn on the same session is over or has put an event on a socket.
C9_TurnsSerialised ==
  \A t1, t2 \in 1..Len(turns) :
    (t1 < t2 /\ turns[t1].sid = turns[t2].sid
       /\ \E k \in ConnIds : Len(EventsOf(k, t2)) > 0) =>
      \/ Finished(t1)
      \/ \E k \in ConnIds : Len(EventsOf(k, t1)) > 0

\* C10: a subscriber is disconnected during a turn that the collaborator
\* answers, nobody joins: every connection that stayed subscribed,
\* registered and active up to the end of the turn holds the response.
C10_RemainingSubscribersServed ==
  \A t \in 1..Len(turns) :
    (Finished(t) /\ turns[t].outcome = "ok" /\ track[t].departed /\ ~track[t].grown) =>
      \A k \in track[t].alive : Len(TypedEventsOf(k, t, "chat_response")) = 1

\* the events of the n-th system message on k's socket
SystemEventsOf(k, n) ==
  SelectSeq(inbox[k], LAMBDA e : e.type = "system_message" /\ e.seq = n)
\* the events of the n-th broadcast of ConnectionManager on k's socket
CastEventsOf(k, n) ==
  SelectSeq(inbox[k], LAMBDA e : e.type = "broadcast" /\ e.seq = n)

\* C11: a broadcast goes over a snapshot of the subscriber set: whatever
\* other tasks subscribe, unsubscribe or unregister while a broadcast to a
\* session or to a user is suspended in a send, the broadcast is not
\* aborted (it catches no exception), and once it is over every connection
\* that was in the set, registered and active from its beginning to its end
\* holds the message once, no send having failed; for broadcast_to_session
\* and broadcast_to_user of WebSocketService (sending a system message) and
\* for ConnectionManager.broadcast_to_session.
C11_BroadcastOverSnapshot ==
  /\ (sys.pc = "idle" /\ sys.kind \in {"session", "user"} /\ sys.failed = {}) =>
       /\ sys.exc = "none"
       /\ \A k \in sys.alive : Len(SystemEventsOf(k, sys.n)) = 1
  /\ (cast.pc = "idle" /\ cast.failed = {}) =>
       \A k \in cast.copy \cap active_connections :
         Len(CastEventsOf(k, cast.n)) = 1

\* C12: once a unicast send to a registered connection has failed
\* (WebSocketConnection.send_message cleared is_active and returned False)
\* and the call that sent it has returned, the connection is unregistered:
\* no key of connections is left whose is_active flag is cleared.
C12_FailedSendUnregisters ==
  \A c \in connections :
    (cpc[c] = "open" /\ dpc[c] = 0 /\ h[c].pc = "idle") => is_active[c]

\* the error events on k's socket, but the chat_error that answers a turn
\* of k's own
ErrorEventsOf(k) ==
  SelectSeq(inbox[k], LAMBDA e : \/ e.type = "error"
                                 \/ e.type = "chat_error" /\ turns[e.turn].origin # k)

\* C13: a send of a broadcast to session s fails on one subscriber: the
\* broadcast goes on, every other subscriber that stayed registered and
\* active holds the broadcast message exactly once and holds no error
\* event (other than the chat_error of a failed turn of its own); for the
\* broadcast of a system message to the session by WebSocketService, the
\* subscriber set being left alone meanwhile, and for
\* ConnectionManager.broadcast_to_session.
C13_SendFailureContained ==
  /\ (sys.pc = "idle" /\ sys.kind = "session" /\ sys.failed # {}
        /\ ~sys.touched) =>
       /\ sys.exc = "none"
       /\ \A k \in sys.alive :
            /\ Len(SystemEventsOf(k, sys.n)) = 1
            /\ Len(ErrorEventsOf(k)) = 0
  /\ (cast.pc = "idle" /\ cast.failed # {}) =>
       \A k \in (cast.copy \cap active_connections) \ cast.failed :
         /\ Len(CastEventsOf(k, cast.n)) = 1
         /\ Len(ErrorEventsOf(k)) = 0

\* C13 happens: the send of a system message for S1 failed on one
\* subscriber, and another subscriber, there for the whole broadcast, holds
\* the message.
C13_Witness ==
  /\ sys.pc = "idle" /\ sys.kind = "session" /\ sys.key = "S1" /\ ~sys.touched
  /\ \E f \in sys.failed, k \in sys.alive :
       /\ f # k
       /\ f \in Subscribers("S1")
       /\ Len(SystemEventsOf(k, sys.n)) = 1

\* the same for ConnectionManager: a broadcast to S1 is over, its send to
\* one subscriber failed and another subscriber holds the message
C13_ManagerWitness ==
  /\ cast.pc = "idle" /\ cast.sid = "S1"
  /\ \E f \in cast.failed, k \in cast.copy \cap active_connections :
       f # k /\ Len(CastEventsOf(k, cast.n)) = 1

\* C14: a socket that was sent the session_delete event of session s
\* while a chat turn on s was in flight, before the collaborator answered
\* the turn, is sent no event of that turn; one that was sent it while a
\* system message for s was being broadcast is not sent that message
\* after it.
C14_NothingAfterDelete ==
  /\ \A t \in 1..Len(turns) : \A k \in turns[t].deleted : EventsOf(k, t) = <<>>
  /\ \A k \in sys.deleted :
       \A i, j \in 1..Len(inbox[k]) :
         (i < j /\ inbox[k][i].type = "session_delete"
            /\ inbox[k][i].sid = sys.key) =>
           ~(inbox[k][j].type = "system_message" /\ inbox[k][j].seq = sys.n)

\* C15: a chat_message sent with mode STREAM that the collaborator
\* answered is handled on the streaming path: no socket is sent a
\* chat_response of the turn, and a subscriber that was there for the
\* whole turn is sent chat_stream events, the last one with is_complete.
C15_StreamModeStreams ==
  \A t \in 1..Len(turns) :
    (Finished(t) /\ turns[t].mode = "STREAM" /\ turns[t].outcome = "ok") =>
      /\ \A k \in ConnIds : TypedEventsOf(k, t, "chat_response") = <<>>
      /\ (Undisturbed(t) /\ ~turns[t].aborted) =>
           \A k \in track[t].alive :
             LET ch == TypedEventsOf(k, t, "chat_stream")
             IN Len(ch) > 0 /\ ch[Len(ch)].is_complete

\* C16: handle_message returns from a message of unknown type, of
\* malformed payload or of invalid JSON that a registered connection c
\* sent (for WebSocketService: the transport having accepted the reply):
\* c was sent one error event, no other connection was sent anything, and
\* the connection set and the indexes are as they were; for
\* WebSocketService and for ConnectionManager.
C16_RejectedGetsErrorReply ==
  [][\A c \in ConnIds :
       (/\ log'.op \in {"handle_rejected", "cm_handle_rejected"}
        /\ log'.c = c
        /\ IF driven = "service" THEN c \in connections /\ is_active'[c]
           ELSE c \in active_connections) =>
         /\ inbox'[c] = Append(inbox[c], PlainEvent("error"))
         /\ \A k \in ConnIds \ {c} : inbox'[k] = inbox[k]
         /\ UNCHANGED <<connections, session_connections, user_connections,
                        subscribed_sessions, active_connections,
                        session_subscriptions>>]_vars

\* the same for WebSocketService alone
C16_ServiceRejects ==
  [][\A c \in ConnIds :
       (log'.op = "handle_rejected" /\ log'.c = c /\ c \in connections
          /\ is_active'[c]) =>
         /\ inbox'[c] = Append(inbox[c], PlainEvent("error"))
         /\ \A k \in ConnIds \ {c} : inbox'[k] = inbox[k]
         /\ UNCHANGED <<connections, session_connections, user_connections,
                        subscribed_sessions>>]_vars

\* C17: when connect returns successfully for c (WebSocketService: the
\* connection object; ConnectionManager: True), c is in the connection
\* set, in the subscriber set of a session, and, if a user was
\* authenticated, in that user's connection set.
C17_RegisteredEverywhere ==
  /\ (log.op = "connect_return" /\ log.ret = "connection") =>
       /\ log.c \in connections
       /\ log.c \in Members(session_connections)
       /\ user_id[log.c] # NoUser =>
            /\ user_id[log.c] \in DOMAIN user_connections
            /\ log.c \in user_connections[user_id[log.c]]
  /\ (log.op = "cm_connect_return" /\ log.ret = "True") =>
       /\ log.c \in active_connections
       /\ log.c \in Members(session_subscriptions)

\* C18: in every reachable state of WebSocketService, whatever connects,
\* disconnects, subscribe_session and unsubscribe_session calls,
\* session_delete messages and stop_service calls came before, no key of
\* the session index and no key of the user index is mapped to an empty
\* set.
C18_NoEmptyEntries ==
  /\ \A s \in DOMAIN session_connections : session_connections[s] # {}
  /\ \A u \in DOMAIN user_connections : user_connections[u] # {}

\* C18 happens: disconnect has returned for a connection of user u1 that
\* was subscribed to S1, and neither S1 nor u1 is a key any more.
C18_Witness ==
  /\ log.op = "disconnect"
  /\ life[log.c].born >= 0
  /\ user_id[log.c] = "u1"
  /\ "S1" \in subscribed_sessions[log.c]
  /\ "S1" \notin DOMAIN session_connections
  /\ "u1" \notin DOMAIN user_connections

\* C19: a subscribe_session or unsubscribe_session call for an id that is
\* not registered returns False, catches no exception, and leaves the
\* connection set, the session index, the user index and the connections'
\* own subscription records as they were.
C19_UnknownIdRefused ==
  [][\A c \in ConnIds :
       (log'.op \in SubscribeOps /\ log'.c = c /\ c \notin connections) =>
         /\ log'.ret = "False"
         /\ log'.exc = "none"
         /\ UNCHANGED <<connections, session_connections, user_connections,
                        subscribed_sessions>>]_vars

\* C19 happens: subscribe_session has just refused an id that had been
\* registered and is registered no more.
C19_Witness ==
  /\ log.op = "subscribe_session"
  /\ log.ret = "False"
  /\ life[log.c].born >= 0
  /\ log.c \notin connections

\* a registered connection of WebSocketService that is marked inactive
Inactive(c) == c \in connections /\ ~is_active[c]
\* the sessions and the users whose set holds c
IndexedUnder(c) ==
  <<{s \in DOMAIN session_connections : c \in session_connections[s]},
    {u \in DOMAIN user_connections : c \in user_connections[u]}>>

\* the first half of C20: with the monitor running (and the clock having
\* room for the sweep that is due, and for the one after it should that
\* one run late), a registered connection marked inactive is eventually in
\* no structure
C20_EventuallyGone ==
  \A c \in ConnIds :
    (Inactive(c) /\ heartbeat_task = "running"
       /\ last_ping[c] + heartbeat_timeout + 2 * heartbeat_interval <= MaxTime)
      ~> (c \notin connections /\ IndexedUnder(c) = <<{}, {}>>)

\* the second half of C20: the id of a connection marked inactive is put
\* into no set of the session index or of the user index
C20_NeverInsertedAgain ==
  [][\A c \in ConnIds :
       (life[c].born >= 0 /\ ~is_active[c]) =>
         /\ IndexedUnder(c)'[1] \subseteq IndexedUnder(c)[1]
         /\ IndexedUnder(c)'[2] \subseteq IndexedUnder(c)[2]]_vars

\* C20: a registered connection that is marked inactive is eventually
\* removed from the connection set, from every session's set and from
\* every user's set, the sweep running on, and its id is never again put
\* into an index.
C20_InactiveIsCleared == C20_EventuallyGone /\ C20_NeverInsertedAgain

\* the liveness stamp of c in the registry that is driven:
\* WebSocketConnection.last_ping, connection_metadata[c]["last_heartbeat"]
Stamped(c) ==
  IF driven = "service" THEN c \in connections
  ELSE c \in DOMAIN connection_metadata
Stamp(c) ==
  IF driven = "service" THEN last_ping[c]
  ELSE IF c \in DOMAIN connection_metadata
       THEN connection_metadata[c].last_heartbeat ELSE -1

\* an inbound ping or heartbeat of a registered connection sets its stamp
\* to the current time
C21_InboundRefreshes ==
  [][\A c \in ConnIds :
       (life'[c].pings > life[c].pings /\ Stamped(c)') => Stamp(c)' = now']_vars

\* a message the socket of a registered connection accepted sets its stamp
\* to the current time
C21_SendRefreshes ==
  [][\A c \in ConnIds :
       (Len(inbox'[c]) > Len(inbox[c]) /\ Stamped(c)') => Stamp(c)' = now']_vars

\* the stamp of a connection that stays registered changes in no other step
C21_NothingElse ==
  [][\A c \in ConnIds :
       (Stamped(c) /\ Stamped(c)' /\ Stamp(c)' # Stamp(c)) =>
         \/ life'[c].pings > life[c].pings
         \/ Len(inbox'[c]) > Len(inbox[c])]_vars

\* C21: the liveness stamp of a connection is set to the current time by
\* every inbound heartbeat or ping, and by every message successfully sent
\* to the connection, and nothing else changes it.
C21_StampFollowsTraffic ==
  C21_InboundRefreshes /\ C21_SendRefreshes /\ C21_NothingElse

\* connection c of WebSocketService is overdue, the monitor is running and
\* the clock has room for the sweep that is due
Overdue(c) ==
  /\ driven = "service" /\ heartbeat_task = "running"
  /\ c \in connections
  /\ is_timed_out(now - last_ping[c])
  /\ now + heartbeat_interval <= MaxTime

\* c is out of the registry, or a ping has refreshed its stamp
Settled(c) ==
  c \notin connections \/ ~is_timed_out(now - last_ping[c])

\* C22: when the evaluation of the entry of one connection raises in a
\* sweep, that entry alone is skipped: no other connection that was
\* overdue in the sweep is left registered when the sweep is over (the
\* clock not having advanced meanwhile).
C22_FaultSkipsOneEntry ==
  (log.op = "sweep_raised" /\ late = 0) =>
    \A c \in connections \ {log.c} : ~is_timed_out(now - last_ping[c])

\* and the monitor keeps running: after a sweep that raised the task is
\* live and asleep until the next sweep
C22_MonitorSurvives ==
  log.op = "sweep_raised" =>
    /\ heartbeat_task = "running" /\ hb.pc = "sleeping"
    /\ hb.wake = now + heartbeat_interval

\* every overdue connection is eventually evicted, unless it pings first
C23_OverdueEvicted ==
  \A c \in ConnIds : Overdue(c) ~> Settled(c)

\* C23: the sweep does not wait on a slow peer: every overdue connection
\* other than the peer whose close never completes is eventually evicted
\* (unless it pings first).
C23_SlowPeerDelaysNobody ==
  \A c \in ConnIds \ {SlowPeer} : Overdue(c) ~> Settled(c)

\* a sweep task is live: created and not done
SweepLive == hb.pc # "none"

\* at most one sweep task is live: self.heartbeat_task holds a task that
\* is not done exactly when a monitor frame exists, and start_service
\* creates a task only when none is live
C24_TaskIffLive == (heartbeat_task = "running") <=> SweepLive
C24_OneSweepTask ==
  [][(hb'.pc = "created" /\ hb.pc # "created") => ~SweepLive]_vars

\* when a stop_service call returns, during which no start_service call
\* created a task, no sweep task is live and the three structures are
\* empty
C24_StoppedClean ==
  [][(log'.op = "stop_return" /\ ~stop.restarted) =>
       /\ hb'.pc = "none" /\ heartbeat_task' # "running"
       /\ connections' = {}
       /\ DOMAIN session_connections' = {}
       /\ DOMAIN user_connections' = {}]_vars

\* when start_service returns a sweep task is live, and a start_service
\* that finds no live task, as after stop_service, creates one
C24_StartStarts ==
  log.op = "start_service" => (SweepLive /\ heartbeat_task = "running")
C24_Restarts ==
  [][(log'.op = "start_service" /\ ~SweepLive) => hb'.pc = "created"]_vars

\* C24: over a sequence of start_service and stop_service calls at most
\* one sweep task is live at any time; when stop_service returns none is
\* live and the connection set, the session index and the user index are
\* empty; a start_service after that starts a sweep task.
C24_SweepTaskLifecycle ==
  /\ [](C24_TaskIffLive /\ C24_StartStarts)
  /\ C24_OneSweepTask /\ C24_StoppedClean /\ C24_Restarts

\* C24 happens: stop_service has returned after a connection had been
\* registered, and start_service, called after that, has created a sweep
\* task that has not run yet
C24_Witness ==
  /\ log.op = "start_service" /\ hb.pc = "created"
  /\ stop.pc = "idle" /\ sys.base > 0
  /\ connections = {}

\* when disconnect(c) of ConnectionManager returns, no heartbeat task is
\* recorded for c
C25_NoTaskRecorded ==
  log.op = "cm_disconnect" => log.c \notin heartbeat_tasks

\* the keys of heartbeat_tasks are keys of active_connections
C25_TasksOfActive == heartbeat_tasks \subseteq active_connections

\* the heartbeat task of a connection that was registered and has no task
\* recorded any more is eventually over
C25_TaskTerminates ==
  \A c \in ConnIds :
    (driven = "manager" /\ life[c].born >= 0 /\ c \notin heartbeat_tasks)
      ~> (loop[c].pc = "done")

\* C25: after disconnect(c) of ConnectionManager no heartbeat task is
\* recorded for c and the task that was created for c eventually ends,
\* also when c's own heartbeat loop called disconnect (on a timeout or on
\* a failed heartbeat_request); heartbeat_tasks never has a key that
\* active_connections has not.
C25_TaskRetired ==
  /\ [](C25_NoTaskRecorded /\ C25_TasksOfActive)
  /\ C25_TaskTerminates

\* the heartbeat task of c has set no timer: it has never run
NeverRan(c) == loop[c].wake = 0

\* C25 happens: the heartbeat loop of c has disconnected c on a timeout,
\* no task is recorded for c and its task is over; and the task of k,
\* cancelled by a disconnect(k) before its first run, is over without
\* having run
C25_Witness ==
  /\ driven = "manager"
  /\ \E c \in ConnIds :
       /\ life[c].evicted >= 0
       /\ c \notin heartbeat_tasks /\ c \notin active_connections
       /\ loop[c].pc = "done"
  /\ \E k \in ConnIds :
       /\ life[k].born >= 0 /\ life[k].evicted < 0
       /\ k \notin heartbeat_tasks /\ k \notin active_connections
       /\ loop[k].pc = "done" /\ NeverRan(k)

\* C25 happens also from outside: disconnect(c) has just returned while
\* the task of c, which it cancelled before its first run, has not run
C25_PendingWitness ==
  /\ log.op = "cm_disconnect" /\ loop[log.c].pc = "cancelled"
  /\ NeverRan(log.c)

\* the collaborator has accepted a chat turn of c on session s
Accepted(c, s) ==
  \E t \in 1..Len(turns) :
    turns[t].origin = c /\ turns[t].sid = s /\ turns[t].outcome = "ok"
\* turn t is over and the collaborator failed it, and it never accepted a
\* turn of the same connection on the same session
Refused(t) ==
  /\ Finished(t) /\ turns[t].outcome = "failed"
  /\ ~Accepted(turns[t].origin, turns[t].sid)

\* a chat_message that the collaborator fails leaves its sender out of the
\* session's subscriber set
C26_RefusedNotSubscribed ==
  \A t \in 1..Len(turns) :
    Refused(t) => turns[t].origin \notin Subscribers(turns[t].sid)

\* and its sender is sent no event of a later turn on that session
C26_RefusedNotServed ==
  \A t \in 1..Len(turns) :
    Refused(t) =>
      \A t2 \in 1..Len(turns) :
        (t2 > t /\ turns[t2].sid = turns[t].sid) =>
          Len(ChunksOf(turns[t].origin, t2)) = 0

\* C26: a connection is in the subscriber set of a session only if the
\* collaborator accepted an operation of it on the session: a chat_message
\* that the collaborator fails leaves the session index as it was, and the
\* sender receives no later broadcast of the session.
C26_SubscribedOnlyIfAccepted ==
  C26_RefusedNotSubscribed /\ C26_RefusedNotServed

\* C27: in every quiescent state of WebSocketService (no call of it is
\* suspended) the two sides of the subscription relation agree: for every
\* registered connection c and session s, c is in session_connections[s]
\* if and only if s is in the subscribed_sessions of c.
C27_SubscriptionSidesAgree ==
  (driven = "service" /\ Quiescent /\ stop.pc = "idle") =>
    \A c \in connections, s \in SessionIds :
      (c \in Subscribers(s)) <=> (s \in subscribed_sessions[c])

\* the same without session_delete: while no session_delete has been
\* handled
C27_AgreeWithoutDelete ==
  (driven = "service" /\ Quiescent /\ stop.pc = "idle"
     /\ \A k \in ConnIds : life[k].deletes = 0) =>
    \A c \in connections, s \in SessionIds :
      (c \in Subscribers(s)) <=> (s \in subscribed_sessions[c])

\* C28: from the end of the setup of websocket_endpoint to the start of
\* its cleanup the connection id is a key of active_connections of
\* ConnectionManager if and only if it is a key of connections of
\* WebSocketService.  The setup ends and the cleanup starts in one
\* uninterrupted run; the log holds where the id was registered in between.
C28_RegistriesInStep ==
  log.op = "endpoint_setup" => log.ret \in {"both", "neither"}

\* no endpoint gets past its setup with its id registered in
\* WebSocketService
C28_NeverInService ==
  driven = "manager" => connections = {}

\* the maps of ConnectionManager that have an entry for c
CmEntries(c) ==
  (IF c \in active_connections THEN {"active_connections"} ELSE {})
    \cup (IF c \in DOMAIN connection_metadata THEN {"connection_metadata"} ELSE {})
    \cup (IF c \in heartbeat_tasks THEN {"heartbeat_tasks"} ELSE {})
    \cup (IF c \in Members(session_subscriptions)
          THEN {"session_subscriptions"} ELSE {})
\* the socket of c accepted the connection_established message
Greeted(c) ==
  \E i \in 1..Len(inbox[c]) : inbox[c][i].type = "connection_established"

\* connect of ConnectionManager returns True only with the id in all four
\* maps, under its session in session_subscriptions
C29_TrueMeansRegistered ==
  (log.op = "cm_connect_return" /\ log.ret = "True") =>
    /\ CmEntries(log.c) = {"active_connections", "connection_metadata",
                           "heartbeat_tasks", "session_subscriptions"}
    /\ log.c \in session_subscriptions[connection_metadata[log.c].session_id]

\* when the handshake or the connection_established send failed, connect
\* returns False and no map has an entry for the id
C29_FailureLeavesNothing ==
  (log.op = "cm_connect_return" /\ ~Greeted(log.c)) =>
    (log.ret = "False" /\ CmEntries(log.c) = {})

\* the part of it that concerns the handshake
C29_FailedHandshake ==
  (log.op = "cm_connect_return" /\ log.exc = "Exception") =>
    (log.ret = "False" /\ CmEntries(log.c) = {})

\* C29: connect of ConnectionManager returns True only if, as it returns,
\* the id is in active_connections, connection_metadata, heartbeat_tasks
\* and session_subscriptions[session_id]; when the handshake or the
\* connection_established send fails it returns False and leaves no entry
\* for the id.
C29_ConnectResultIsTrue ==
  C29_TrueMeansRegistered /\ C29_FailureLeavesNothing

\* C30: when stop_service returns, every connection that was registered
\* in WebSocketService before the return has been closed (is_active is
\* false), also one registered while stop_service was suspended in the
\* close of another; the dicts are cleared at the return, so none is
\* dropped while still open.
C30_StopClosesAll ==
  log.op = "stop_return" =>
    \A c \in ConnIds : life[c].born >= 0 => ~is_active[c]

\* C30 (second half): in no step a connection leaves self.connections while it
\* is open
C30_NeverDroppedOpen ==
  [][\A c \in ConnIds :
       (c \in connections /\ c \notin connections') => ~is_active'[c]]_vars

====
